---------------------------- MODULE Spec2Model ----------------------------
(***************************************************************************)
(* A model of src/src/sentencepiece_processor.cc: the run-length layer      *)
(* (rle / expand_from_pieces / expand_from_ids) and the processor facade    *)
(* (Load, SetVocabulary, ResetVocabulary, extra options, SampleEncode).     *)
(*                                                                         *)
(* C++ vectors are 0-based; sequences here are 1-based.  Positions keep the *)
(* code's 0-based values and At(s, i) reads s[i].                           *)
(***************************************************************************)
EXTENDS Integers, Sequences, FiniteSets, TLC

(***************************************************************************)
(* Bounds of the model.                                                     *)
(***************************************************************************)
\* longest run of one piece an input run descriptor asks for
MaxRun == 11
\* number of run descriptors an input is built from
MaxRuns == 2
\* longest piece sequence a caller hands to the unfold of Decode
MaxUnfoldLen == 4

\* the longest run of BYTE pieces given to Decode
MaxByteRun == 4

\* the longest sequence of text pieces given to Decode
MaxDecodeLen == 3

\* the number of threads that call the processor at the same time
NumThreads == 2

VARIABLES
  \* ---- run-length layer ----
  pieces,      \* the piece sequence handed to rle (spt.pieces() of Encode)
  tokens,      \* *tokens after rle(pieces, tokens)
  ids,         \* ids of Encode(input, std::vector<int>*): PieceToId of tokens
  expanded,    \* result of expand_from_pieces(tokens)
  new_ids,     \* result of expand_from_ids(ids)
  rpc,         \* which run-length operations have run
  \* ---- SentencePieceProcessor ----
  model_proto_,            \* std::unique_ptr<ModelProto>
  model_,                  \* std::unique_ptr<ModelInterface>
  normalizer_,             \* std::unique_ptr<normalizer::Normalizer>
  denormalizer_,           \* std::unique_ptr<normalizer::Normalizer>
  encode_extra_options_,   \* std::vector<ExtraOption>
  decode_extra_options_,   \* std::vector<ExtraOption>
  call,                    \* the last call: operation, arguments, returned status and value
  \* ---- calls in progress ----
  threads                  \* per thread: the call it is in, its position and its locals

rleVars == <<pieces, tokens, ids, expanded, new_ids, rpc>>

procVars == <<model_proto_, model_, normalizer_, denormalizer_,
              encode_extra_options_, decode_extra_options_, call>>

vars == <<pieces, tokens, ids, expanded, new_ids, rpc,
          model_proto_, model_, normalizer_, denormalizer_,
          encode_extra_options_, decode_extra_options_, call, threads>>

(***************************************************************************)
(* Helpers over 0-based vectors.                                            *)
(***************************************************************************)
At(s, i) == s[i + 1]

Reverse(s) == [i \in 1..Len(s) |-> s[Len(s) + 1 - i]]

\* std::find(v.begin(), v.end(), what) - v.begin(); Len(v) when absent
RECURSIVE FindFrom(_, _, _)
FindFrom(v, what, i) ==
  IF i >= Len(v) THEN Len(v)
  ELSE IF At(v, i) = what THEN i
  ELSE FindFrom(v, what, i + 1)

Find(v, what) == FindFrom(v, what, 0)

\* v[from .. to) as a sequence
Slice(v, from, to) == [i \in 1..(to - from) |-> v[from + i]]

Repeat(x, n) == [i \in 1..n |-> x]

(***************************************************************************)
(* Text.  A std::string is the sequence of its bytes (0..255); a piece is   *)
(* a std::string.  The two marker pieces, spelled out in ASCII:             *)
(* "(#startrepeat)" and "(#endrepeat)".                                     *)
(***************************************************************************)
StartRepeat == <<40, 35, 115, 116, 97, 114, 116, 114, 101, 112, 101, 97, 116, 41>>
EndRepeat == <<40, 35, 101, 110, 100, 114, 101, 112, 101, 97, 116, 41>>

IsDigitByte(b) == b >= 48 /\ b <= 57

\* std::to_string(d) for a digit d of extract_each_digit: "0" .. "9"
to_string(d) == <<48 + d>>

(***************************************************************************)
(* std::stoi(piece): the value of the leading decimal digits; with no       *)
(* leading digit it throws std::invalid_argument, written StoiThrows (no    *)
(* piece of the model starts with white space or a sign).                   *)
(***************************************************************************)
StoiThrows == -1

RECURSIVE stoi_digits(_, _, _)
stoi_digits(p, k, value) ==
  IF k <= Len(p) /\ IsDigitByte(p[k])
  THEN stoi_digits(p, k + 1, value * 10 + (p[k] - 48))
  ELSE value

stoi(p) ==
  IF Len(p) > 0 /\ IsDigitByte(p[1]) THEN stoi_digits(p, 1, 0) ELSE StoiThrows

(***************************************************************************)
(* extract_each_digit: x%10 pushed while x > 0, then reversed.              *)
(***************************************************************************)
RECURSIVE extract_each_digit_loop(_, _)
extract_each_digit_loop(x, digits) ==
  IF x > 0
  THEN extract_each_digit_loop(x \div 10, Append(digits, x % 10))
  ELSE digits

\* mutant: the std::reverse of extract_each_digit left out
extract_each_digit_NoReverse(x) == extract_each_digit_loop(x, <<>>)

extract_each_digit(x) == Reverse(extract_each_digit_loop(x, <<>>))

(***************************************************************************)
(* rle: the outer for loop over i and the inner while that advances i to    *)
(* the last piece of the run.                                               *)
(***************************************************************************)
RECURSIVE rle_run(_, _)
rle_run(v, i) ==
  IF i < Len(v) - 1 /\ At(v, i) = At(v, i + 1)
  THEN rle_run(v, i + 1)
  ELSE i

rle_emit(piece, count) ==
  IF count > 1
  THEN LET digits == extract_each_digit(count)
       IN  <<piece, StartRepeat>>
             \o [k \in 1..Len(digits) |-> to_string(digits[k])]
             \o <<EndRepeat>>
  ELSE <<piece>>

RECURSIVE rle_loop(_, _, _)
rle_loop(v, i, out) ==
  IF i >= Len(v) THEN out
  ELSE LET last == rle_run(v, i)
           count == last - i + 1
       IN  rle_loop(v, last + 1, out \o rle_emit(At(v, last), count))

rle(v) == rle_loop(v, 0, <<>>)

(***************************************************************************)
(* VectorToInt: the vector reversed, then sum of it * 10^position.          *)
(***************************************************************************)
RECURSIVE VectorToInt_loop(_, _, _, _)
VectorToInt_loop(v, k, decimal, total) ==
  IF k > Len(v) THEN total
  ELSE VectorToInt_loop(v, k + 1, decimal * 10, total + v[k] * decimal)

\* mutant: the std::reverse of VectorToInt left out
VectorToInt_NoReverse(v) == VectorToInt_loop(v, 1, 1, 0)

VectorToInt(v) == VectorToInt_loop(Reverse(v), 1, 1, 0)

(***************************************************************************)
(* The outcome of an unfold: st is "ok" with the produced vector in out,    *)
(* "throw" when std::stoi or vector::insert throws, "ub" when the code      *)
(* reads outside the vector, "loop" when the while loop never ends.         *)
(***************************************************************************)
Outcome(st, out) == [st |-> st, out |-> out]

\* num of _expand_from_pieces: std::stoi of pieces[start+1 .. end)
NumOfPieces(v, from, to) == [k \in 1..(to - from) |-> stoi(v[from + k])]

Throws(num) == \E k \in 1..Len(num) : num[k] = StoiThrows

(***************************************************************************)
(* _expand_from_pieces.  pieces[start_position-1] is read before the        *)
(* markers are tested.  vector::erase never reallocates, so it1 still       *)
(* designates index start_position when insert uses it.  A negative count   *)
(* converts to a size_type beyond max_size() and insert throws.             *)
(***************************************************************************)
_expand_from_pieces(v) ==
  LET start_position == Find(v, StartRepeat)
      end_position == Find(v, EndRepeat)
      n == Len(v)
  IN  IF start_position = 0 THEN Outcome("ub", v)
      ELSE LET repeat_token == At(v, start_position - 1)
           IN  IF start_position # n /\ end_position # n
               THEN IF end_position < start_position
                    THEN IF Throws(NumOfPieces(v, start_position + 1, n))
                         THEN Outcome("throw", v) ELSE Outcome("ub", v)
                    ELSE LET num == NumOfPieces(v, start_position + 1, end_position)
                             count == VectorToInt(num) - 1
                         IN  IF Throws(num) \/ count < 0 THEN Outcome("throw", v)
                             ELSE Outcome("ok",
                                    Slice(v, 0, start_position)
                                      \o Repeat(repeat_token, count)
                                      \o Slice(v, end_position + 1, n))
               ELSE Outcome("ok", v)

(***************************************************************************)
(* expand_from_pieces: while a start marker is present, expand once.  A     *)
(* pass that returns the vector unchanged leaves the loop condition true    *)
(* for ever.                                                                *)
(***************************************************************************)
RECURSIVE expand_from_pieces(_)
expand_from_pieces(v) ==
  IF Find(v, StartRepeat) = Len(v) THEN Outcome("ok", v)
  ELSE LET r == _expand_from_pieces(v)
       IN  IF r.st # "ok" THEN r
           ELSE IF r.out = v THEN Outcome("loop", v)
           ELSE expand_from_pieces(r.out)

(***************************************************************************)
(* unique_ptr: Null, or Ptr(x) owning x.                                    *)
(***************************************************************************)
Null == <<>>
Ptr(x) == <<x>>
Deref(p) == p[1]

(***************************************************************************)
(* ModelProto::SentencePiece: a piece text and its type.                    *)
(***************************************************************************)
PieceTypes == {"NORMAL", "UNKNOWN", "CONTROL", "USER_DEFINED", "UNUSED", "BYTE"}

SentencePiece(piece, type) == [piece |-> piece, type |-> type]

\* piece texts used by the model's vocabularies, in UTF-8
UnkPiece == <<60, 117, 110, 107, 62>>            \* "<unk>"
BosPiece == <<60, 115, 62>>                      \* "<s>"
EosPiece == <<60, 47, 115, 62>>                  \* "</s>"
SpaceSymbol == <<226, 150, 129>>                 \* kSpaceSymbol, U+2581
PieceA == <<97>>                                 \* "a"
PieceB == <<98>>                                 \* "b"
PieceAB == <<97, 98>>                            \* "ab"
PieceSpA == <<226, 150, 129, 97>>                \* U+2581 "a"
PieceXY == <<120, 121>>                          \* "xy"
PieceUsr == <<117, 115, 114>>                    \* "usr"
PieceByteZ == <<60, 48, 120, 55, 65, 62>>        \* "<0x7A>"

(***************************************************************************)
(* The model kernel (ModelInterface) over the pieces of a ModelProto: the   *)
(* id of a piece is its position, a piece that is not in the vocabulary     *)
(* maps to the id of the UNKNOWN piece.                                     *)
(***************************************************************************)
ModelUnkId(P) ==
  IF \E k \in 1..Len(P) : P[k].type = "UNKNOWN"
  THEN (CHOOSE k \in 1..Len(P) :
          P[k].type = "UNKNOWN" /\ \A j \in 1..(k - 1) : P[j].type # "UNKNOWN") - 1
  ELSE 0

ModelPieceToId(P, w) ==
  IF \E k \in 1..Len(P) : P[k].piece = w
  THEN (CHOOSE k \in 1..Len(P) :
          P[k].piece = w /\ \A j \in 1..(k - 1) : P[j].piece # w) - 1
  ELSE ModelUnkId(P)

ModelIdToPiece(P, id) == P[id + 1].piece

ModelTypeOf(P, id) == IF id >= 0 /\ id < Len(P) THEN P[id + 1].type ELSE "NONE"

\* ModelInterface::status(): the vocabulary defines exactly one UNKNOWN piece
ModelStatusOk(P) == Cardinality({k \in 1..Len(P) : P[k].type = "UNKNOWN"}) = 1

(***************************************************************************)
(* The vocabulary of the processor the run-length layer runs on: the two    *)
(* markers and the digit pieces have ids of their own.                      *)
(***************************************************************************)
Vocab ==
  <<SentencePiece(UnkPiece, "UNKNOWN"),
    SentencePiece(StartRepeat, "USER_DEFINED"),
    SentencePiece(EndRepeat, "USER_DEFINED"),
    SentencePiece(<<48>>, "NORMAL"), SentencePiece(<<49>>, "NORMAL"),
    SentencePiece(<<50>>, "NORMAL"), SentencePiece(<<51>>, "NORMAL"),
    SentencePiece(<<52>>, "NORMAL"), SentencePiece(<<53>>, "NORMAL"),
    SentencePiece(<<54>>, "NORMAL"), SentencePiece(<<55>>, "NORMAL"),
    SentencePiece(<<56>>, "NORMAL"), SentencePiece(<<57>>, "NORMAL"),
    SentencePiece(PieceA, "NORMAL"), SentencePiece(PieceB, "NORMAL")>>

\* the loop of Encode(input, std::vector<int>*) over the folded pieces
PiecesToIds(P, v) == [k \in 1..Len(v) |-> ModelPieceToId(P, v[k])]

\* num of _expand_from_ids: std::stoi(IdToPiece(id)) of ids[start+1 .. end)
NumOfIds(P, v, from, to) ==
  [k \in 1..(to - from) |-> stoi(ModelIdToPiece(P, v[from + k]))]

(***************************************************************************)
(* _expand_from_ids, on the pieces P of model_: the prefix ids[0, start_position) is copied (it holds  *)
(* the symbol), then count copies of the symbol are pushed, then the        *)
(* suffix after end_position.  Without an end marker the count loop reads   *)
(* to the end of the vector and the suffix loop starts past it.             *)
(***************************************************************************)
_expand_from_ids(P, v) ==
  LET start_position == Find(v, ModelPieceToId(P, StartRepeat))
      end_position == Find(v, ModelPieceToId(P, EndRepeat))
      n == Len(v)
  IN  IF start_position = 0 \/ start_position = n THEN Outcome("ub", v)
      ELSE IF end_position < start_position
      THEN IF Throws(NumOfIds(P, v, start_position + 1, n))
           THEN Outcome("throw", v) ELSE Outcome("ub", v)
      ELSE LET symbol == At(v, start_position - 1)
               num == NumOfIds(P, v, start_position + 1, end_position)
               count == VectorToInt(num)
           IN  IF Throws(num) THEN Outcome("throw", v)
               ELSE IF end_position = n THEN Outcome("ub", v)
               ELSE Outcome("ok",
                      Slice(v, 0, start_position)
                        \o Repeat(symbol, count)
                        \o Slice(v, end_position + 1, n))

RECURSIVE expand_from_ids(_, _)
expand_from_ids(P, v) ==
  IF Find(v, ModelPieceToId(P, StartRepeat)) = Len(v) THEN Outcome("ok", v)
  ELSE LET r == _expand_from_ids(P, v)
       IN  IF r.st # "ok" THEN r ELSE expand_from_ids(P, r.out)

(***************************************************************************)
(* string_util::OneCharLen: the length of a UTF-8 character from the high   *)
(* four bits of its lead byte; the lead byte of an empty string is the      *)
(* terminating NUL.                                                         *)
(***************************************************************************)
OneCharLen(w) ==
  LET lead == IF Len(w) = 0 THEN 0 ELSE w[1] \div 16
  IN  IF lead < 12 THEN 1 ELSE IF lead < 14 THEN 2 ELSE IF lead = 14 THEN 3 ELSE 4

(***************************************************************************)
(* normalizer::Normalizer::Normalize: (normalized, norm_to_orig).  Empty    *)
(* input gives empty outputs.  Otherwise the dummy prefix U+2581 comes      *)
(* first when the spec adds one, every space becomes U+2581, every          *)
(* normalized byte maps to the offset of the input byte it comes from and   *)
(* a last entry maps the end to the input's length.                         *)
(***************************************************************************)
RECURSIVE NormalizeFrom(_, _)
NormalizeFrom(input, i) ==
  IF i >= Len(input) THEN [normalized |-> <<>>, norm_to_orig |-> <<Len(input)>>]
  ELSE LET rest == NormalizeFrom(input, i + 1)
           out == IF At(input, i) = 32 THEN SpaceSymbol ELSE <<At(input, i)>>
       IN  [normalized |-> out \o rest.normalized,
            norm_to_orig |-> Repeat(i, Len(out)) \o rest.norm_to_orig]

Normalize(spec, input) ==
  IF Len(input) = 0 THEN [normalized |-> <<>>, norm_to_orig |-> <<>>]
  ELSE LET body == NormalizeFrom(input, 0)
       IN  IF spec.add_dummy_prefix
           THEN [normalized |-> SpaceSymbol \o body.normalized,
                 norm_to_orig |-> Repeat(0, Len(SpaceSymbol)) \o body.norm_to_orig]
           ELSE body

(***************************************************************************)
(* The segmentation of the model kernel: an EncodeResult is a sequence of   *)
(* (piece, id) pairs whose pieces concatenate to the normalized text.  At   *)
(* each position the kernel takes a NORMAL or USER_DEFINED piece that       *)
(* matches there, or, when none does, one character as the unknown piece.   *)
(* Encode takes the longest match, the second-best result the shortest.     *)
(***************************************************************************)
Pair(w, id) == [first |-> w, second |-> id]

IsPrefixAt(w, text, i) ==
  /\ Len(w) > 0
  /\ i + Len(w) <= Len(text)
  /\ \A k \in 1..Len(w) : text[i + k] = w[k]

ModelMatches(P, text, i) ==
  {k \in 1..Len(P) : P[k].type \in {"NORMAL", "USER_DEFINED"}
                       /\ IsPrefixAt(P[k].piece, text, i)}

Min(a, b) == IF a < b THEN a ELSE b

RECURSIVE ModelSegment(_, _, _, _)
ModelSegment(P, text, i, longest) ==
  IF i >= Len(text) THEN <<>>
  ELSE LET M == ModelMatches(P, text, i)
       IN  IF M = {}
           THEN LET n == Min(OneCharLen(Slice(text, i, Len(text))), Len(text) - i)
                IN  <<Pair(Slice(text, i, i + n), ModelUnkId(P))>>
                      \o ModelSegment(P, text, i + n, longest)
           ELSE LET k == CHOOSE k \in M : \A j \in M :
                           IF longest THEN Len(P[j].piece) <= Len(P[k].piece)
                                      ELSE Len(P[j].piece) >= Len(P[k].piece)
                IN  <<Pair(P[k].piece, k - 1)>>
                      \o ModelSegment(P, text, i + Len(P[k].piece), longest)

\* ModelInterface::Encode(normalized)
ModelEncode(P, normalized) == ModelSegment(P, normalized, 0, TRUE)

\* ModelInterface::NBestEncode(normalized, nbest_size): the best results, best first
ModelNBestEncode(P, normalized, nbest_size) ==
  LET best == ModelSegment(P, normalized, 0, TRUE)
      second == ModelSegment(P, normalized, 0, FALSE)
  IN  IF nbest_size < 2 \/ best = second THEN <<best>> ELSE <<best, second>>

\* ModelInterface::SampleEncode(normalized, alpha): the results it may draw
ModelSampleEncode(P, normalized, alpha) ==
  {ModelSegment(P, normalized, 0, TRUE), ModelSegment(P, normalized, 0, FALSE)}

(***************************************************************************)
(* Model artifacts (ModelProto) the processor is loaded with.               *)
(*   has_denormalizer_spec, denormalizer_charsmap_empty: denormalizer_spec  *)
(*   nbest, sample: IsNBestEncodeAvailable / IsSampleEncodeAvailable of the *)
(*     kernel ModelFactory creates for the artifact                         *)
(*   samples: self_test_data, pairs (input, expected pieces)                *)
(*   unk_surface: trainer_spec().unk_surface(), Null when it is not set     *)
(*   denormalizer_rules: the character map of denormalizer_spec             *)
(***************************************************************************)
\* one rule of a character map: the bytes from are replaced by the bytes to
Rule(from, to) == [from |-> from, to |-> to]

Sample(input, expected) == [input |-> input, expected |-> expected]

ArtUnigram ==
  [name |-> "unigram", model_type |-> "UNIGRAM",
   pieces |-> <<SentencePiece(UnkPiece, "UNKNOWN"), SentencePiece(BosPiece, "CONTROL"),
                SentencePiece(EosPiece, "CONTROL"), SentencePiece(PieceA, "NORMAL"),
                SentencePiece(PieceB, "NORMAL"), SentencePiece(PieceAB, "NORMAL"),
                SentencePiece(SpaceSymbol, "NORMAL"), SentencePiece(PieceSpA, "NORMAL"),
                SentencePiece(PieceXY, "UNUSED"), SentencePiece(PieceUsr, "USER_DEFINED"),
                SentencePiece(PieceByteZ, "BYTE")>>,
   byte_fallback |-> FALSE, add_dummy_prefix |-> TRUE,
   remove_extra_whitespaces |-> FALSE, treat_whitespace_as_suffix |-> FALSE,
   unk_surface |-> Null, denormalizer_rules |-> <<Rule(<<97>>, <<65>>)>>,
   has_denormalizer_spec |-> TRUE, denormalizer_charsmap_empty |-> FALSE,
   nbest |-> TRUE, sample |-> TRUE,
   samples |-> <<Sample(PieceAB, <<PieceSpA, PieceB>>)>>]

ArtBpe ==
  [name |-> "bpe", model_type |-> "BPE",
   pieces |-> <<SentencePiece(UnkPiece, "UNKNOWN"), SentencePiece(PieceA, "NORMAL"),
                SentencePiece(PieceB, "NORMAL"), SentencePiece(PieceAB, "NORMAL"),
                SentencePiece(SpaceSymbol, "NORMAL"), SentencePiece(PieceByteZ, "BYTE")>>,
   byte_fallback |-> TRUE, add_dummy_prefix |-> TRUE,
   remove_extra_whitespaces |-> FALSE, treat_whitespace_as_suffix |-> FALSE,
   unk_surface |-> Null, denormalizer_rules |-> <<>>,
   has_denormalizer_spec |-> FALSE, denormalizer_charsmap_empty |-> TRUE,
   nbest |-> FALSE, sample |-> TRUE,
   samples |-> <<>>]

ArtWord ==
  [name |-> "word", model_type |-> "WORD",
   pieces |-> <<SentencePiece(UnkPiece, "UNKNOWN"), SentencePiece(BosPiece, "CONTROL"),
                SentencePiece(EosPiece, "CONTROL"), SentencePiece(PieceAB, "NORMAL")>>,
   byte_fallback |-> FALSE, add_dummy_prefix |-> FALSE,
   remove_extra_whitespaces |-> FALSE, treat_whitespace_as_suffix |-> FALSE,
   unk_surface |-> Null, denormalizer_rules |-> <<>>,
   has_denormalizer_spec |-> FALSE, denormalizer_charsmap_empty |-> TRUE,
   nbest |-> FALSE, sample |-> FALSE,
   samples |-> <<>>]

ArtChar ==
  [name |-> "char", model_type |-> "CHAR",
   pieces |-> <<SentencePiece(UnkPiece, "UNKNOWN"), SentencePiece(BosPiece, "CONTROL"),
                SentencePiece(EosPiece, "CONTROL"), SentencePiece(PieceA, "NORMAL"),
                SentencePiece(PieceB, "NORMAL"), SentencePiece(SpaceSymbol, "NORMAL")>>,
   byte_fallback |-> FALSE, add_dummy_prefix |-> TRUE,
   remove_extra_whitespaces |-> FALSE, treat_whitespace_as_suffix |-> FALSE,
   unk_surface |-> Null, denormalizer_rules |-> <<>>,
   has_denormalizer_spec |-> TRUE, denormalizer_charsmap_empty |-> TRUE,
   nbest |-> TRUE, sample |-> FALSE,
   samples |-> <<Sample(PieceA, <<SpaceSymbol, PieceA>>)>>]

\* its self-test sample expects a segmentation the kernel does not produce
ArtBadTest ==
  [name |-> "badtest", model_type |-> "UNIGRAM",
   pieces |-> <<SentencePiece(UnkPiece, "UNKNOWN"), SentencePiece(PieceA, "NORMAL"),
                SentencePiece(PieceB, "NORMAL"), SentencePiece(SpaceSymbol, "NORMAL")>>,
   byte_fallback |-> FALSE, add_dummy_prefix |-> TRUE,
   remove_extra_whitespaces |-> FALSE, treat_whitespace_as_suffix |-> FALSE,
   unk_surface |-> Null, denormalizer_rules |-> <<Rule(<<97>>, <<65>>)>>,
   has_denormalizer_spec |-> TRUE, denormalizer_charsmap_empty |-> FALSE,
   nbest |-> TRUE, sample |-> TRUE,
   samples |-> <<Sample(PieceAB, <<SpaceSymbol, PieceAB>>)>>]

\* no UNKNOWN piece: the kernel's status() is an error
ArtNoUnk ==
  [name |-> "nounk", model_type |-> "UNIGRAM",
   pieces |-> <<SentencePiece(PieceA, "NORMAL"), SentencePiece(PieceB, "NORMAL")>>,
   byte_fallback |-> FALSE, add_dummy_prefix |-> TRUE,
   remove_extra_whitespaces |-> FALSE, treat_whitespace_as_suffix |-> FALSE,
   unk_surface |-> Null, denormalizer_rules |-> <<>>,
   has_denormalizer_spec |-> FALSE, denormalizer_charsmap_empty |-> TRUE,
   nbest |-> TRUE, sample |-> TRUE,
   samples |-> <<>>]

Artifacts == {ArtUnigram, ArtBpe, ArtWord, ArtChar, ArtBadTest, ArtNoUnk}

\* the artifact of the processor the run-length layer runs on
ArtRle ==
  [name |-> "rle", model_type |-> "UNIGRAM", pieces |-> Vocab,
   byte_fallback |-> FALSE, add_dummy_prefix |-> TRUE,
   remove_extra_whitespaces |-> FALSE, treat_whitespace_as_suffix |-> FALSE,
   unk_surface |-> Null, denormalizer_rules |-> <<>>,
   has_denormalizer_spec |-> FALSE, denormalizer_charsmap_empty |-> TRUE,
   nbest |-> TRUE, sample |-> TRUE,
   samples |-> <<>>]

(***************************************************************************)
(* The processor as a value: the operators below are the const and          *)
(* non-const methods, taking the object as self.                            *)
(***************************************************************************)
Processor(mp, m, n, d, eo, do) ==
  [model_proto_ |-> mp, model_ |-> m, normalizer_ |-> n, denormalizer_ |-> d,
   encode_extra_options_ |-> eo, decode_extra_options_ |-> do]

Self == Processor(model_proto_, model_, normalizer_, denormalizer_,
                  encode_extra_options_, decode_extra_options_)

\* SentencePieceProcessor(): every pointer null, both option lists empty
NewProcessor == Processor(Null, Null, Null, Null, <<>>, <<>>)

OK == "OK"

\* the pieces model_ reads: the kernel keeps a reference to *model_proto_
Pieces(self) == Deref(self.model_proto_).pieces

(***************************************************************************)
(* status(): model_ and normalizer_ present, then their own status.         *)
(***************************************************************************)
status(self) ==
  IF self.model_ = Null THEN "Internal"
  ELSE IF self.normalizer_ = Null THEN "Internal"
  ELSE IF ~ModelStatusOk(Pieces(self)) THEN "Internal"
  ELSE OK

(***************************************************************************)
(* The accessors: CHECK_STATUS_OR_RETURN_DEFAULT, then the kernel.          *)
(***************************************************************************)
PieceToId(self, piece) ==
  IF status(self) # OK THEN 0 ELSE ModelPieceToId(Pieces(self), piece)

IdToPiece(self, id) ==
  IF status(self) # OK THEN <<>> ELSE ModelIdToPiece(Pieces(self), id)

IsControl(self, id) ==
  IF status(self) # OK THEN FALSE ELSE ModelTypeOf(Pieces(self), id) = "CONTROL"

IsUnknown(self, id) ==
  IF status(self) # OK THEN FALSE ELSE ModelTypeOf(Pieces(self), id) = "UNKNOWN"

IsUnused(self, id) ==
  IF status(self) # OK THEN FALSE ELSE ModelTypeOf(Pieces(self), id) = "UNUSED"

IsByte(self, id) ==
  IF status(self) # OK THEN FALSE ELSE ModelTypeOf(Pieces(self), id) = "BYTE"

\* ModelInterface::GetPieceSize and GetScore: the artifacts modelled here
\* give the piece of id i the score -i
ModelGetPieceSize(P) == Len(P)

ModelGetScore(P, id) == 0 - id

GetPieceSize(self) ==
  IF status(self) # OK THEN 0 ELSE ModelGetPieceSize(Pieces(self))

GetScore(self, id) ==
  IF status(self) # OK THEN 0 ELSE ModelGetScore(Pieces(self), id)

(***************************************************************************)
(* unk_id / bos_id / eos_id / pad_id: model_->xxx_piece() is evaluated      *)
(* first, with no status check.  With model_ null that is a call through a  *)
(* null pointer: the process is killed, or the read goes through and the    *)
(* accessors that follow return their defaults, so the result is -1.        *)
(***************************************************************************)
PadPiece == <<60, 112, 97, 100, 62>>             \* "<pad>"

\* value: what the call returns if it runs to its end; null_call: it has
\* called a member function through the null model_
special_id(self, piece, is_unknown) ==
  LET id == PieceToId(self, piece)
  IN  [value |-> IF (IF is_unknown THEN IsUnknown(self, id) ELSE IsControl(self, id))
                 THEN id ELSE -1,
       null_call |-> self.model_ = Null]

unk_id(self) == special_id(self, UnkPiece, TRUE)

bos_id(self) == special_id(self, BosPiece, FALSE)

eos_id(self) == special_id(self, EosPiece, FALSE)

pad_id(self) == special_id(self, PadPiece, FALSE)

(***************************************************************************)
(* ParseExtraOptions.  extra_option is given split at ":" (the empty        *)
(* string is <<>>).  The list is cleared first; each token is pushed        *)
(* before the bos / eos piece is checked.                                   *)
(***************************************************************************)
extra_option_map(s) ==
  CASE s = "bos" -> "BOS"
    [] s = "eos" -> "EOS"
    [] s = "reverse" -> "REVERSE"
    [] OTHER -> "end"

Returned(st, value) == [status |-> st, value |-> value]

RECURSIVE ParseExtraOptionsLoop(_, _, _, _)
ParseExtraOptionsLoop(self, extra_option, k, extra_options) ==
  IF k > Len(extra_option) THEN Returned(OK, extra_options)
  ELSE LET it == extra_option_map(extra_option[k])
           pushed == Append(extra_options, it)
       IN  IF it = "end" THEN Returned("Internal", extra_options)
           ELSE IF it = "BOS" /\ IsUnknown(self, PieceToId(self, BosPiece))
           THEN Returned("Internal", pushed)
           ELSE IF it = "EOS" /\ IsUnknown(self, PieceToId(self, EosPiece))
           THEN Returned("Internal", pushed)
           ELSE ParseExtraOptionsLoop(self, extra_option, k + 1, pushed)

ParseExtraOptions(self, extra_option) ==
  IF extra_option = <<>> THEN Returned(OK, <<>>)
  ELSE IF status(self) # OK THEN Returned(status(self), <<>>)
  ELSE ParseExtraOptionsLoop(self, extra_option, 1, <<>>)

(***************************************************************************)
(* SetVocabulary / ResetVocabulary: the new type of one piece, and the      *)
(* whole call returning the status and the pieces of *model_proto_.         *)
(***************************************************************************)
\* mutant: set_type(NORMAL) left out, a piece is only ever demoted
SetVocabularyType_OnlyDemotes(piece, type, vocab) ==
  IF type = "CONTROL" \/ type = "UNKNOWN" \/ type = "USER_DEFINED" THEN type
  ELSE IF piece \in vocab \/ OneCharLen(piece) = Len(piece) THEN type
  ELSE "UNUSED"

SetVocabularyType(piece, type, vocab) ==
  IF type = "CONTROL" \/ type = "UNKNOWN" \/ type = "USER_DEFINED" THEN type
  ELSE IF piece \in vocab \/ OneCharLen(piece) = Len(piece) THEN "NORMAL"
  ELSE "UNUSED"

SetVocabulary(self, valid_vocab) ==
  IF status(self) # OK THEN Returned(status(self), self.model_proto_)
  ELSE LET proto == Deref(self.model_proto_)
           type == proto.model_type
       IN  IF ~(type = "UNIGRAM" \/ type = "BPE")
           THEN Returned("Internal", self.model_proto_)
           ELSE Returned(OK, Ptr([proto EXCEPT !.pieces =
                  [i \in 1..Len(proto.pieces) |->
                     SentencePiece(proto.pieces[i].piece,
                                   SetVocabularyType(proto.pieces[i].piece,
                                                     proto.pieces[i].type,
                                                     valid_vocab))]]))

ResetVocabularyType(type) == IF type = "UNUSED" THEN "NORMAL" ELSE type

ResetVocabulary(self) ==
  IF status(self) # OK THEN Returned(status(self), self.model_proto_)
  ELSE LET proto == Deref(self.model_proto_)
       IN  Returned(OK, Ptr([proto EXCEPT !.pieces =
             [i \in 1..Len(proto.pieces) |->
                SentencePiece(proto.pieces[i].piece,
                              ResetVocabularyType(proto.pieces[i].type))]]))

(***************************************************************************)
(* SentencePieceText: text and pieces; a piece record has the proto's       *)
(* defaults (empty surface, begin = end = 0) for the fields never set.      *)
(***************************************************************************)
SPiece(piece, id, surface, begin, end) ==
  [piece |-> piece, id |-> id, surface |-> surface, begin |-> begin, end |-> end]

SPieceDefault(piece, id) == SPiece(piece, id, <<>>, 0, 0)

SentencePieceText(text, pcs) == [text |-> text, pieces |-> pcs]

ClearedText == SentencePieceText(<<>>, <<>>)

\* absl::ClippedSubstr(s, pos, n)
ClippedSubstr(str, pos, n) ==
  LET from == Min(pos, Len(str))
  IN  Slice(str, from, Min(from + n, Len(str)))

\* ByteToPiece(b): "<0x%02X>"
HexChar(d) == IF d < 10 THEN 48 + d ELSE 55 + d
ByteToPiece(b) == <<60, 48, 120, HexChar(b \div 16), HexChar(b % 16), 62>>

(***************************************************************************)
(* ApplyExtraOptions over the pieces of spt, option by option.              *)
(***************************************************************************)
\* mutant: REVERSE leaves the pieces as they are
ApplyExtraOption_NoReverse(self, extra_option, pcs) ==
  CASE extra_option = "REVERSE" -> pcs
    [] extra_option = "EOS" ->
         Append(pcs, SPieceDefault(EosPiece, PieceToId(self, EosPiece)))
    [] extra_option = "BOS" ->
         <<SPieceDefault(BosPiece, PieceToId(self, BosPiece))>> \o pcs

ApplyExtraOption(self, extra_option, pcs) ==
  CASE extra_option = "REVERSE" -> Reverse(pcs)
    [] extra_option = "EOS" ->
         Append(pcs, SPieceDefault(EosPiece, PieceToId(self, EosPiece)))
    [] extra_option = "BOS" ->
         <<SPieceDefault(BosPiece, PieceToId(self, BosPiece))>> \o pcs

RECURSIVE ApplyExtraOptions(_, _, _)
ApplyExtraOptions(self, extra_options, pcs) ==
  IF extra_options = <<>> THEN Returned(OK, pcs)
  ELSE IF Head(extra_options) \notin {"REVERSE", "EOS", "BOS"}
  THEN Returned("Internal", pcs)
  ELSE ApplyExtraOptions(self, Tail(extra_options),
                         ApplyExtraOption(self, Head(extra_options), pcs))

(***************************************************************************)
(* PopulateSentencePieceText.  The records one byte-fallback piece w        *)
(* decomposes into, then one iteration of the loop over result, then the    *)
(* whole function.  "UB" is a read of norm_to_orig outside its range.       *)
(***************************************************************************)
\* mutant: the record of a CONTROL piece spans the length of its text
ControlPiece_Spans(w, id, norm_to_orig, consumed) ==
  SPiece(w, id, <<>>, At(norm_to_orig, consumed), At(norm_to_orig, consumed) + Len(w))

\* the record of a CONTROL piece: begin = end = norm_to_orig[consumed]
ControlPiece(w, id, norm_to_orig, consumed) ==
  SPiece(w, id, <<>>, At(norm_to_orig, consumed), At(norm_to_orig, consumed))

\* mutant: the merged record keeps the piece text of the run's first piece
MergedPiece_KeepsPiece(sp, w, surface, orig_end) ==
  SPiece(sp.piece, sp.id, sp.surface \o surface, sp.begin, orig_end)

\* mutant: the merged record keeps the end of the run's first piece
MergedPiece_KeepsEnd(sp, w, surface, orig_end) ==
  SPiece(sp.piece \o w, sp.id, sp.surface \o surface, sp.begin, sp.end)

\* an unknown piece merged into the previous, unknown, record sp
MergedPiece(sp, w, surface, orig_end) ==
  SPiece(sp.piece \o w, sp.id, sp.surface \o surface, sp.begin, orig_end)

BytePieces(self, w, surface, orig_begin, orig_end) ==
  [i \in 1..Len(w) |->
     LET piece == ByteToPiece(w[i])
         sp_id == ModelPieceToId(Pieces(self), piece)
     IN  IF i = Len(w)
         THEN SPiece(piece, sp_id, surface, orig_begin, orig_end)
         ELSE SPiece(piece, sp_id, <<>>, orig_begin, orig_begin)]

Failed(st, pcs, consumed) == [status |-> st, pieces |-> pcs, consumed |-> consumed]

RECURSIVE PopulateLoop(_, _, _, _, _, _, _, _)
PopulateLoop(self, input, norm_to_orig, result, k, consumed, is_prev_unk, pcs) ==
  IF k > Len(result) THEN Failed(OK, pcs, consumed)
  ELSE
    LET w == result[k].first
        id == result[k].second
        is_unk == IsUnknown(self, id)
    IN
    IF Len(w) = 0 THEN Failed("Internal", pcs, consumed)
    ELSE IF IsControl(self, id)
    THEN IF consumed >= Len(norm_to_orig) THEN Failed("UB", pcs, consumed)
         ELSE PopulateLoop(self, input, norm_to_orig, result, k + 1, consumed, is_unk,
                Append(pcs, ControlPiece(w, id, norm_to_orig, consumed)))
    ELSE
      LET begin == consumed
          end == consumed + Len(w)
      IN
      IF ~(begin < Len(norm_to_orig)) \/ ~(end < Len(norm_to_orig))
      THEN Failed("Internal", pcs, consumed)
      ELSE
        LET orig_begin == At(norm_to_orig, begin)
            orig_end == At(norm_to_orig, end)
        IN
        IF ~(orig_begin <= Len(input)) \/ ~(orig_end <= Len(input))
             \/ ~(orig_begin <= orig_end)
        THEN Failed("Internal", pcs, consumed)
        ELSE
          LET surface == ClippedSubstr(input, orig_begin, orig_end - orig_begin)
              added ==
                IF is_unk /\ Deref(self.model_proto_).byte_fallback
                THEN pcs \o BytePieces(self, w, surface, orig_begin, orig_end)
                ELSE IF is_prev_unk /\ is_unk
                THEN [pcs EXCEPT ![Len(pcs)] = MergedPiece(@, w, surface, orig_end)]
                ELSE Append(pcs, SPiece(w, id, surface, orig_begin, orig_end))
          IN  PopulateLoop(self, input, norm_to_orig, result, k + 1,
                           consumed + Len(w), is_unk, added)

PopulateSentencePieceText(self, input, normalized, norm_to_orig, result) ==
  LET walked == PopulateLoop(self, input, norm_to_orig, result, 1, 0, FALSE, <<>>)
  IN  IF walked.status # OK
      THEN Returned(walked.status, SentencePieceText(<<>>, walked.pieces))
      ELSE IF walked.consumed # Len(normalized)
      THEN Returned("Internal", SentencePieceText(<<>>, walked.pieces))
      ELSE LET applied == ApplyExtraOptions(self, self.encode_extra_options_, walked.pieces)
           IN  IF applied.status # OK
               THEN Returned(applied.status, SentencePieceText(<<>>, applied.value))
               ELSE Returned(OK, SentencePieceText(input, applied.value))

(***************************************************************************)
(* The structured Encode(input, spt).                                       *)
(***************************************************************************)
Encode(self, input) ==
  IF status(self) # OK THEN Returned(status(self), ClearedText)
  ELSE LET proto == Deref(self.model_proto_)
           norm == Normalize(proto, input)
           result == ModelEncode(proto.pieces, norm.normalized)
       IN  PopulateSentencePieceText(self, input, norm.normalized,
                                     norm.norm_to_orig, result)

\* the pieces of a SentencePieceText, as the simple API copies them
PieceTexts(spt) == [k \in 1..Len(spt.pieces) |-> spt.pieces[k].piece]

\* Encode(input, std::vector<std::string>*): Encode, then rle of the pieces
EncodeAsPieces(self, input) ==
  IF status(self) # OK THEN Returned(status(self), <<>>)
  ELSE LET r == Encode(self, input)
       IN  IF r.status # OK THEN Returned(r.status, <<>>)
           ELSE Returned(OK, rle(PieceTexts(r.value)))

(***************************************************************************)
(* The structured SampleEncode(input, nbest_size, alpha, spt): which of     *)
(* the three branches runs, and the set of what the call may return (the    *)
(* draws of the kernel and of the discrete distribution, whose weights      *)
(* exp(alpha * score) are all positive).                                    *)
(***************************************************************************)
\* mutant: the second branch taken for nbest_size == 0 only
SampleEncodeBranch_ZeroOnly(nbest_available, nbest_size) ==
  IF ~nbest_available \/ nbest_size < 0 THEN "sample"
  ELSE IF nbest_size = 0 THEN "encode"
  ELSE IF nbest_size > 1 THEN "nbest"
  ELSE "none"

\* mutant: the first branch taken without looking at the sign of nbest_size
SampleEncodeBranch_NoSign(nbest_available, nbest_size) ==
  IF ~nbest_available THEN "sample"
  ELSE IF nbest_size = 1 \/ nbest_size = 0 THEN "encode"
  ELSE IF nbest_size > 1 THEN "nbest"
  ELSE "none"

SampleEncodeBranch(nbest_available, nbest_size) ==
  IF ~nbest_available \/ nbest_size < 0 THEN "sample"
  ELSE IF nbest_size = 1 \/ nbest_size = 0 THEN "encode"
  ELSE IF nbest_size > 1 THEN "nbest"
  ELSE "none"

SampleEncode(self, input, nbest_size, alpha) ==
  IF status(self) # OK THEN {Returned(status(self), ClearedText)}
  ELSE IF ~(nbest_size <= 512) THEN {Returned("Internal", ClearedText)}
  ELSE
    LET proto == Deref(self.model_proto_)
        norm == Normalize(proto, input)
        branch == SampleEncodeBranch(proto.nbest, nbest_size)
        Populate(result) ==
          PopulateSentencePieceText(self, input, norm.normalized,
                                    norm.norm_to_orig, result)
    IN  CASE branch = "sample" ->
               IF ~proto.sample THEN {Returned("Internal", ClearedText)}
               ELSE {Populate(result) :
                       result \in ModelSampleEncode(proto.pieces, norm.normalized, alpha)}
          [] branch = "encode" ->
               {Populate(ModelEncode(proto.pieces, norm.normalized))}
          [] branch = "nbest" ->
               LET nbests == ModelNBestEncode(proto.pieces, norm.normalized, nbest_size)
               IN  IF Len(nbests) = 0 THEN {Returned("Internal", ClearedText)}
                   ELSE {Populate(nbests[i]) : i \in 1..Len(nbests)}
          [] OTHER -> {Returned(OK, ClearedText)}

(***************************************************************************)
(* The structured NBestEncode(input, nbest_size, nbest_spt): one            *)
(* SentencePieceText per result of the kernel, in its order (the score of   *)
(* a result is copied as it is and left out here); the first result that    *)
(* fails to populate ends the call.                                         *)
(***************************************************************************)
RECURSIVE NBestPopulate(_, _, _, _, _, _)
NBestPopulate(self, input, norm, nbests, k, spts) ==
  IF k > Len(nbests) THEN Returned(OK, spts)
  ELSE LET r == PopulateSentencePieceText(self, input, norm.normalized,
                                          norm.norm_to_orig, nbests[k])
       IN  IF r.status # OK THEN Returned(r.status, Append(spts, r.value))
           ELSE NBestPopulate(self, input, norm, nbests, k + 1, Append(spts, r.value))

NBestEncode(self, input, nbest_size) ==
  IF status(self) # OK THEN Returned(status(self), <<>>)
  ELSE LET proto == Deref(self.model_proto_)
           norm == Normalize(proto, input)
           nbests == ModelNBestEncode(proto.pieces, norm.normalized, nbest_size)
       IN  IF ~proto.nbest THEN Returned("Internal", <<>>)
           ELSE IF Len(nbests) = 0 THEN Returned("Internal", <<>>)
           ELSE NBestPopulate(self, input, norm, nbests, 1, <<>>)

(***************************************************************************)
(* The EncodeResults PopulateSentencePieceText may be handed by a kernel:   *)
(* a segmentation of the normalized text, in which a kernel that emits      *)
(* control symbols has put the piece "<s>" at some position.  Every kernel  *)
(* returns the empty result for the empty text.                             *)
(***************************************************************************)
InsertAt(v, k, x) == Slice(v, 0, k) \o <<x>> \o Slice(v, k, Len(v))

KernelResults(P, normalized) ==
  LET segmentations == {ModelSegment(P, normalized, 0, TRUE),
                        ModelSegment(P, normalized, 0, FALSE)}
      bos == Pair(BosPiece, ModelPieceToId(P, BosPiece))
  IN  IF Len(normalized) = 0 \/ ModelTypeOf(P, bos.second) # "CONTROL"
      THEN segmentations
      ELSE segmentations
             \cup UNION {{InsertAt(r, k, bos) : k \in 0..Len(r)} : r \in segmentations}

(***************************************************************************)
(* Collaborators of Decode.  PieceToByte gives the byte a piece "<0xNN>"    *)
(* spells and -1 for any other piece.  DecodeUTF8 reads one character off   *)
(* the front of src: its code point and length, or kUnicodeError and        *)
(* length 1 when the bytes are no well-formed character.  UnicodeCharToUTF8 *)
(* is the UTF-8 encoding of a code point.                                   *)
(***************************************************************************)
kDefaultUnknownSymbol == <<32, 226, 129, 135, 32>>

kUnicodeError == 65533

HexValue(c) ==
  IF c >= 48 /\ c <= 57 THEN c - 48 ELSE IF c >= 65 /\ c <= 70 THEN c - 55 ELSE -1

PieceToByte(piece) ==
  IF /\ Len(piece) = 6
     /\ piece[1] = 60 /\ piece[2] = 48 /\ piece[3] = 120 /\ piece[6] = 62
     /\ HexValue(piece[4]) >= 0 /\ HexValue(piece[5]) >= 0
  THEN 16 * HexValue(piece[4]) + HexValue(piece[5])
  ELSE -1

IsTrailByte(b) == b >= 128 /\ b < 192

IsValidCodepoint(c) == c < 55296 \/ (c >= 57344 /\ c <= 1114111)

DecodeUTF8(src) ==
  LET len == Len(src)
      Char(uc, mblen) == [uc |-> uc, mblen |-> mblen]
      cp2 == (src[1] % 32) * 64 + (src[2] % 64)
      cp3 == (src[1] % 16) * 4096 + (src[2] % 64) * 64 + (src[3] % 64)
      cp4 == (src[1] % 8) * 262144 + (src[2] % 64) * 4096 + (src[3] % 64) * 64
               + (src[4] % 64)
  IN  IF src[1] < 128 THEN Char(src[1], 1)
      ELSE IF len >= 2 /\ (src[1] \div 32) = 6 /\ IsTrailByte(src[2]) /\ cp2 >= 128
      THEN Char(cp2, 2)
      ELSE IF /\ len >= 3 /\ (src[1] \div 16) = 14
              /\ IsTrailByte(src[2]) /\ IsTrailByte(src[3])
              /\ cp3 >= 2048 /\ IsValidCodepoint(cp3)
      THEN Char(cp3, 3)
      ELSE IF /\ len >= 4 /\ (src[1] \div 8) = 30
              /\ IsTrailByte(src[2]) /\ IsTrailByte(src[3]) /\ IsTrailByte(src[4])
              /\ cp4 >= 65536 /\ IsValidCodepoint(cp4)
      THEN Char(cp4, 4)
      ELSE Char(kUnicodeError, 1)

\* string_util::UTF8ToUnicodeText: the characters of utf8, one after the other
RECURSIVE UTF8ToUnicodeText(_)
UTF8ToUnicodeText(utf8) ==
  IF Len(utf8) = 0 THEN <<>>
  ELSE LET c == DecodeUTF8(utf8)
       IN  <<c.uc>> \o UTF8ToUnicodeText(Slice(utf8, c.mblen, Len(utf8)))

UnicodeCharToUTF8(c) ==
  LET uc == IF c > 1114111 THEN kUnicodeError ELSE c
  IN  IF uc < 128 THEN <<uc>>
      ELSE IF uc < 2048 THEN <<192 + (uc \div 64), 128 + (uc % 64)>>
      ELSE IF uc < 65536
      THEN <<224 + (uc \div 4096), 128 + ((uc \div 64) % 64), 128 + (uc % 64)>>
      ELSE <<240 + (uc \div 262144), 128 + ((uc \div 4096) % 64),
             128 + ((uc \div 64) % 64), 128 + (uc % 64)>>

(***************************************************************************)
(* The denormalizer: Normalizer::Normalize over the character map of        *)
(* denormalizer_spec.  The text is consumed chunk by chunk, a chunk being   *)
(* the longest rule source that matches or else one character; every byte   *)
(* a chunk is normalized to is aligned with the offset the chunk starts at  *)
(* and the last entry of norm_to_orig is the length of the text.  Empty     *)
(* text gives empty outputs.                                                *)
(***************************************************************************)
NormalizePrefix(rules, text, i) ==
  LET M == {k \in 1..Len(rules) : IsPrefixAt(rules[k].from, text, i)}
  IN  IF M = {}
      THEN LET n == Min(OneCharLen(Slice(text, i, Len(text))), Len(text) - i)
           IN  [first |-> Slice(text, i, i + n), second |-> n]
      ELSE LET k == CHOOSE k \in M : \A j \in M : Len(rules[j].from) <= Len(rules[k].from)
           IN  [first |-> rules[k].to, second |-> Len(rules[k].from)]

RECURSIVE DenormalizeFrom(_, _, _)
DenormalizeFrom(rules, text, consumed) ==
  IF consumed >= Len(text) THEN [normalized |-> <<>>, norm_to_orig |-> <<consumed>>]
  ELSE LET p == NormalizePrefix(rules, text, consumed)
           rest == DenormalizeFrom(rules, text, consumed + p.second)
       IN  [normalized |-> p.first \o rest.normalized,
            norm_to_orig |-> Repeat(consumed, Len(p.first)) \o rest.norm_to_orig]

Denormalize(rules, text) ==
  IF Len(text) = 0 THEN [normalized |-> <<>>, norm_to_orig |-> <<>>]
  ELSE DenormalizeFrom(rules, text, 0)

(***************************************************************************)
(* Decode(pieces, spt).  The lambdas are operators over the value of *spt,  *)
(* the record [text, pieces]; a piece index is the C++ index, from 0.       *)
(***************************************************************************)
\* absl::StrReplaceAll(piece, {{kSpaceSymbol, " "}})
RECURSIVE ReplaceSpaceSymbol(_)
ReplaceSpaceSymbol(piece) ==
  IF Len(piece) = 0 THEN <<>>
  ELSE IF IsPrefixAt(SpaceSymbol, piece, 0)
  THEN <<32>> \o ReplaceSpaceSymbol(Slice(piece, Len(SpaceSymbol), Len(piece)))
  ELSE <<piece[1]>> \o ReplaceSpaceSymbol(Tail(piece))

\* the surface of a piece with the UNKNOWN id: unk_surface for "<unk>" itself
UnknownSurface(self, piece, id, unk_surface) ==
  IF IdToPiece(self, id) = piece THEN unk_surface ELSE piece

DecodeSentencePiece(self, piece, id, is_bos_ws, is_eos_ws) ==
  LET proto == Deref(self.model_proto_)
      unk_surface == IF self.model_proto_ # Null /\ proto.unk_surface # Null
                     THEN Deref(proto.unk_surface)
                     ELSE kDefaultUnknownSymbol
      strips == self.model_proto_ = Null
                  \/ proto.add_dummy_prefix \/ proto.remove_extra_whitespaces
      consumed ==
        IF self.model_proto_ = Null \/ ~proto.treat_whitespace_as_suffix
        THEN IF is_bos_ws /\ strips /\ IsPrefixAt(SpaceSymbol, piece, 0)
             THEN Slice(piece, Len(SpaceSymbol), Len(piece))
             ELSE piece
        ELSE IF /\ is_eos_ws /\ strips /\ Len(piece) >= Len(SpaceSymbol)
                /\ IsPrefixAt(SpaceSymbol, piece, Len(piece) - Len(SpaceSymbol))
             THEN Slice(piece, 0, Len(piece) - 3)
             ELSE piece
  IN  IF IsControl(self, id) THEN <<>>
      ELSE IF IsUnknown(self, id) THEN UnknownSurface(self, piece, id, unk_surface)
      ELSE ReplaceSpaceSymbol(consumed)

SetSurface(spt, index, surface) ==
  [text |-> spt.text \o surface,
   pieces |-> [spt.pieces EXCEPT ![index + 1] =
                 [@ EXCEPT !.surface = surface,
                           !.begin = Len(spt.text),
                           !.end = Len(spt.text) + Len(surface)]]]

\* the surfaces the loop over the decoded characters sets, in order
RECURSIVE ByteSurfaces(_)
ByteSurfaces(ucs) ==
  IF ucs = <<>> THEN <<>>
  ELSE LET uc == Head(ucs)
           utf8 == UnicodeCharToUTF8(uc)
       IN  (IF uc = kUnicodeError THEN <<UnicodeCharToUTF8(kUnicodeError)>>
            ELSE Repeat(<<>>, Len(utf8) - 1) \o <<utf8>>)
             \o ByteSurfaces(Tail(ucs))

RECURSIVE SetSurfaces(_, _, _)
SetSurfaces(spt, i, surfaces) ==
  IF surfaces = <<>> THEN spt
  ELSE SetSurfaces(SetSurface(spt, i, Head(surfaces)), i + 1, Tail(surfaces))

ProcessBytePieces(spt, begin, end) ==
  IF ~(begin < end) THEN Returned(OK, spt)
  ELSE LET bytes == [k \in 1..(end - begin) |-> PieceToByte(spt.pieces[begin + k].piece)]
       IN  IF \E k \in 1..Len(bytes) : ~(0 <= bytes[k]) THEN Returned("Internal", spt)
           ELSE LET surfaces == ByteSurfaces(UTF8ToUnicodeText(bytes))
                    i == begin + Len(surfaces)
                IN  IF i > end THEN Returned("UB", spt)
                    ELSE IF i # end
                    THEN Returned("Internal", SetSurfaces(spt, begin, surfaces))
                    ELSE Returned(OK, SetSurfaces(spt, begin, surfaces))

\* the loop over the pieces, from piece i on
RECURSIVE DecodeLoop(_, _, _, _)
DecodeLoop(self, spt, i, byte_start) ==
  IF i >= Len(spt.pieces) THEN ProcessBytePieces(spt, byte_start, Len(spt.pieces))
  ELSE LET sp == spt.pieces[i + 1]
       IN  IF IsByte(self, sp.id) THEN DecodeLoop(self, spt, i + 1, byte_start)
           ELSE LET run == ProcessBytePieces(spt, byte_start, i)
                    is_eos_space == i = Len(spt.pieces) - 1
                IN  IF run.status # OK THEN run
                    ELSE DecodeLoop(self,
                           SetSurface(run.value, i,
                             DecodeSentencePiece(self, sp.piece, sp.id,
                                                 Len(run.value.text) = 0, is_eos_space)),
                           i + 1, i + 1)

\* orig_to_norm.find(key): the first i with norm_to_orig[i] = key, -1 for end()
OrigToNorm(norm_to_orig, key) ==
  IF \E i \in 1..Len(norm_to_orig) : norm_to_orig[i] = key
  THEN (CHOOSE i \in 1..Len(norm_to_orig) :
          norm_to_orig[i] = key /\ \A h \in 1..(i - 1) : norm_to_orig[h] # key) - 1
  ELSE -1

\* the loop over j of one piece: [new_surface, last_consumed_byte]
RECURSIVE NewSurface(_, _, _, _, _, _)
NewSurface(normalized, norm_to_orig, j, to, new_surface, last_consumed_byte) ==
  IF ~(j < to) THEN [new_surface |-> new_surface, last_consumed_byte |-> last_consumed_byte]
  ELSE LET norm_index == OrigToNorm(norm_to_orig, j + 1)
       IN  IF norm_index = -1
           THEN NewSurface(normalized, norm_to_orig, j + 1, to, new_surface,
                           last_consumed_byte)
           ELSE NewSurface(normalized, norm_to_orig, j + 1, to,
                  new_surface \o (IF last_consumed_byte + 1 <= norm_index - 1
                                  THEN Slice(normalized, last_consumed_byte + 1, norm_index)
                                  ELSE <<>>),
                  norm_index - 1)

\* mutant: the remapped records keep the offsets they had before
RemappedPiece_KeepsSpan(sp, new_surface, begin) ==
  [sp EXCEPT !.surface = new_surface]

RemappedPiece(sp, new_surface, begin) ==
  [sp EXCEPT !.surface = new_surface, !.begin = begin, !.end = begin + Len(new_surface)]

\* the loop over the pieces that remaps surface, begin and end
RECURSIVE Remap(_, _, _, _, _, _, _)
Remap(normalized, norm_to_orig, pcs, i, normalized_piece_surface_index, text_piece_surface_index, last_consumed_byte) ==
  IF i >= Len(pcs) THEN pcs
  ELSE LET curr_surface == pcs[i + 1].surface
           r == NewSurface(normalized, norm_to_orig, text_piece_surface_index,
                           text_piece_surface_index + Len(curr_surface), <<>>,
                           last_consumed_byte)
       IN  Remap(normalized, norm_to_orig,
                 [pcs EXCEPT ![i + 1] =
                    RemappedPiece(@, r.new_surface, normalized_piece_surface_index)],
                 i + 1, normalized_piece_surface_index + Len(r.new_surface),
                 text_piece_surface_index + Len(curr_surface), r.last_consumed_byte)

\* Decode from line 811 on: decoded is the status and *spt after the loops
Denormalized(self, decoded) ==
  IF decoded.status # OK \/ self.denormalizer_ = Null THEN decoded
  ELSE IF Deref(self.denormalizer_) # Deref(self.model_proto_).name
  THEN Returned("UB", decoded.value)
  ELSE LET d == Denormalize(Deref(self.model_proto_).denormalizer_rules,
                            decoded.value.text)
       IN  Returned(OK, SentencePieceText(d.normalized,
               Remap(d.normalized, d.norm_to_orig, decoded.value.pieces, 0, 0, 0, -1)))

\* Decode from line 753 on: applied is what ApplyExtraOptions returned
DecodeApplied(self, applied) ==
  IF applied.status # OK
  THEN Returned(applied.status, SentencePieceText(<<>>, applied.value))
  ELSE Denormalized(self, DecodeLoop(self, SentencePieceText(<<>>, applied.value), 0, 0))

Decode(self, dpieces) ==
  IF status(self) # OK THEN Returned(status(self), ClearedText)
  ELSE DecodeApplied(self,
         ApplyExtraOptions(self, self.decode_extra_options_,
           [k \in 1..Len(dpieces) |->
              SPieceDefault(dpieces[k], PieceToId(self, dpieces[k]))]))

\* Decode(ids, spt): the pieces are IdToPiece of the ids
DecodeOfIds(self, dids) ==
  Decode(self, [k \in 1..Len(dids) |-> IdToPiece(self, dids[k])])

(***************************************************************************)
(* Load(std::unique_ptr<ModelProto>): the members are assigned first, then  *)
(* status() and the self-test decide the returned status.                   *)
(***************************************************************************)
Installed(self, model_proto) ==
  [self EXCEPT
     !.model_proto_ = Ptr(model_proto),
     !.model_ = Ptr(model_proto.name),
     !.normalizer_ = Ptr(model_proto.name),
     !.denormalizer_ =
        IF model_proto.has_denormalizer_spec /\ ~model_proto.denormalizer_charsmap_empty
        THEN Ptr(model_proto.name)
        ELSE @]

\* ModelInterface::VerifyOutputsEquivalent(expected, actual) of the joined pieces
VerifyOutputsEquivalent(expected, actual) == expected = actual

RECURSIVE SelfTest(_, _, _, _)
SelfTest(self, samples, k, errors) ==
  IF k > Len(samples)
  THEN IF errors > 0 THEN "Internal" ELSE OK
  ELSE LET sps == EncodeAsPieces(self, samples[k].input)
       IN  IF sps.status # OK THEN sps.status
           ELSE SelfTest(self, samples, k + 1,
                  IF VerifyOutputsEquivalent(samples[k].expected, sps.value)
                  THEN errors ELSE errors + 1)

Load(self, model_proto) ==
  LET loaded == Installed(self, model_proto)
  IN  IF status(loaded) # OK THEN Returned(status(loaded), loaded)
      ELSE Returned(SelfTest(loaded, model_proto.samples, 1, 0), loaded)

(***************************************************************************)
(* A call in progress: the arguments, the position in the method and the    *)
(* automatic variables of the method (normalized, norm_to_orig, nbests)     *)
(* and the output the caller passed (spts: *spt, or the nbests of           *)
(* *nbest_spt).  Every thread has a frame of its own.                       *)
(***************************************************************************)
Threads == 1..NumThreads

Frame(op, input, nbest_size, dpieces, pc) ==
  [op |-> op, input |-> input, nbest_size |-> nbest_size, dpieces |-> dpieces,
   pc |-> pc, normalized |-> <<>>, norm_to_orig |-> <<>>, nbests |-> <<>>,
   spts |-> <<>>, status |-> OK]

IdleFrame == Frame("none", <<>>, 0, <<>>, "idle")

NoCalls == [t \in Threads |-> IdleFrame]

(***************************************************************************)
(* Inputs of the run-length layer: piece sequences built from at most       *)
(* MaxRuns runs of at most MaxRun copies of one piece, "a" or the digit      *)
(* piece "1" (two adjacent runs of the same piece form one longer run).     *)
(***************************************************************************)
InputPieces == {<<97>>, <<49>>}

RunDescriptors ==
  UNION { [1..m -> InputPieces \X (1..MaxRun)] : m \in 0..MaxRuns }

RECURSIVE Unroll(_)
Unroll(rs) ==
  IF rs = <<>> THEN <<>>
  ELSE Repeat(Head(rs)[1], Head(rs)[2]) \o Unroll(Tail(rs))

RleInputs == { Unroll(rs) : rs \in RunDescriptors }

NotRun == Outcome("notrun", <<>>)

Called(op, arg, st, value) == [op |-> op, arg |-> arg, status |-> st, value |-> value]

\* the call record of a call that returned r
CalledWith(op, arg, r) == Called(op, arg, r.status, r.value)

\* the processor of the run-length layer: ArtRle loaded, no extra options
RleProcessor == Load(NewProcessor, ArtRle).value

RleInit ==
  /\ pieces \in RleInputs
  /\ tokens = <<>>
  /\ ids = <<>>
  /\ expanded = NotRun
  /\ new_ids = NotRun
  /\ rpc = {}
  /\ threads = NoCalls
  /\ model_proto_ = RleProcessor.model_proto_
  /\ model_ = RleProcessor.model_
  /\ normalizer_ = RleProcessor.normalizer_
  /\ denormalizer_ = RleProcessor.denormalizer_
  /\ encode_extra_options_ = <<>>
  /\ decode_extra_options_ = <<>>
  /\ call = Called("Load", "rle", OK, <<>>)

\* Encode(input, std::vector<std::string>*): rle(temp_pieces, pieces)
EncodePieces ==
  /\ "rle" \notin rpc
  /\ tokens' = rle(pieces)
  /\ rpc' = rpc \cup {"rle"}
  /\ UNCHANGED <<pieces, ids, expanded, new_ids>>
  /\ UNCHANGED <<procVars, threads>>

\* Encode(input, std::vector<int>*): rle, then model_->PieceToId of every piece
EncodeIds ==
  /\ "ids" \notin rpc
  /\ ids' = PiecesToIds(Pieces(Self), rle(pieces))
  /\ rpc' = rpc \cup {"ids"}
  /\ UNCHANGED <<pieces, tokens, expanded, new_ids>>
  /\ UNCHANGED <<procVars, threads>>

\* Decode(pieces, std::string*): expand_from_pieces of the folded pieces
DecodePieces ==
  /\ "rle" \in rpc
  /\ "expand_pieces" \notin rpc
  /\ expanded' = expand_from_pieces(tokens)
  /\ rpc' = rpc \cup {"expand_pieces"}
  /\ UNCHANGED <<pieces, tokens, ids, new_ids>>
  /\ UNCHANGED <<procVars, threads>>

\* Decode(ids, std::string*): expand_from_ids of the folded ids
DecodeIds ==
  /\ "ids" \in rpc
  /\ "expand_ids" \notin rpc
  /\ new_ids' = expand_from_ids(Pieces(Self), ids)
  /\ rpc' = rpc \cup {"expand_ids"}
  /\ UNCHANGED <<pieces, tokens, ids, expanded>>
  /\ UNCHANGED <<procVars, threads>>

RleNext == EncodePieces \/ EncodeIds \/ DecodePieces \/ DecodeIds

SpecRle == RleInit /\ [][RleNext]_vars

(***************************************************************************)
(* The simple Decode of pieces and the simple Decode of ids, called with    *)
(* pieces of the caller's own: any sequence of at most MaxUnfoldLen pieces  *)
(* out of "a", "0", "2" and the two markers, and the ids of these pieces.   *)
(* tokens and ids hold the arguments of the two calls.                      *)
(***************************************************************************)
UnfoldPieces == {PieceA, <<48>>, <<50>>, StartRepeat, EndRepeat}

UnfoldInputs == UNION { [1..n -> UnfoldPieces] : n \in 0..MaxUnfoldLen }

UnfoldInit ==
  /\ pieces = <<>>
  /\ tokens \in UnfoldInputs
  /\ ids = PiecesToIds(Pieces(RleProcessor), tokens)
  /\ expanded = NotRun
  /\ new_ids = NotRun
  /\ rpc = {"rle", "ids"}
  /\ threads = NoCalls
  /\ model_proto_ = RleProcessor.model_proto_
  /\ model_ = RleProcessor.model_
  /\ normalizer_ = RleProcessor.normalizer_
  /\ denormalizer_ = RleProcessor.denormalizer_
  /\ encode_extra_options_ = <<>>
  /\ decode_extra_options_ = <<>>
  /\ call = Called("Load", "rle", OK, <<>>)

UnfoldNext == DecodePieces \/ DecodeIds

SpecUnfold == UnfoldInit /\ [][UnfoldNext]_vars

(***************************************************************************)
(* The processor: one action per public operation, with its arguments       *)
(* drawn from the sets below.                                               *)
(***************************************************************************)
\* a model file that cannot be read
MissingFile == "missing"

\* extra_options strings, split at ":"; "" is <<>>
OptionStrings ==
  {<<>>, <<"bos">>, <<"eos">>, <<"reverse">>, <<"bos", "eos">>,
   <<"reverse", "eos">>, <<"eos", "reverse">>, <<"bogus">>}

DecodeOptionStrings == {<<>>, <<"eos">>, <<"reverse">>, <<"bogus">>}

\* valid_vocab arguments of SetVocabulary
ValidVocabs == {{}, {PieceAB}, {PieceAB, PieceXY, PieceByteZ}}

\* input texts: "", "ab", "zz"
Inputs == {<<>>, <<97, 98>>, <<122, 122>>}

NBestSizes == {-1, 0, 1, 2, 513}

Alphas == {0, 1}

Init ==
  /\ model_proto_ = Null
  /\ model_ = Null
  /\ normalizer_ = Null
  /\ denormalizer_ = Null
  /\ encode_extra_options_ = <<>>
  /\ decode_extra_options_ = <<>>
  /\ call = Called("SentencePieceProcessor", <<>>, OK, <<>>)
  /\ pieces = <<>>
  /\ tokens = <<>>
  /\ ids = <<>>
  /\ expanded = NotRun
  /\ new_ids = NotRun
  /\ rpc = {}
  /\ threads = NoCalls

\* Load(filename): a file that cannot be read returns before anything is
\* assigned; otherwise Load(std::unique_ptr<ModelProto>) runs
LoadAction ==
  /\ \/ /\ call' = Called("Load", MissingFile, "NotFound", <<>>)
        /\ UNCHANGED <<model_proto_, model_, normalizer_, denormalizer_>>
     \/ \E model_proto \in Artifacts :
          LET r == Load(Self, model_proto)
          IN  /\ model_proto_' = r.value.model_proto_
              /\ model_' = r.value.model_
              /\ normalizer_' = r.value.normalizer_
              /\ denormalizer_' = r.value.denormalizer_
              /\ call' = Called("Load", model_proto.name, r.status, <<>>)
  /\ UNCHANGED <<encode_extra_options_, decode_extra_options_>>
  /\ UNCHANGED <<rleVars, threads>>

SetEncodeExtraOptionsAction ==
  /\ \E extra_options \in OptionStrings :
       LET r == ParseExtraOptions(Self, extra_options)
       IN  /\ encode_extra_options_' = r.value
           /\ call' = Called("SetEncodeExtraOptions", extra_options, r.status, <<>>)
  /\ UNCHANGED <<model_proto_, model_, normalizer_, denormalizer_, decode_extra_options_>>
  /\ UNCHANGED <<rleVars, threads>>

SetDecodeExtraOptionsAction ==
  /\ \E extra_options \in DecodeOptionStrings :
       LET r == ParseExtraOptions(Self, extra_options)
       IN  /\ decode_extra_options_' = r.value
           /\ call' = Called("SetDecodeExtraOptions", extra_options, r.status, <<>>)
  /\ UNCHANGED <<model_proto_, model_, normalizer_, denormalizer_, encode_extra_options_>>
  /\ UNCHANGED <<rleVars, threads>>

SetVocabularyAction ==
  /\ \E valid_vocab \in ValidVocabs :
       LET r == SetVocabulary(Self, valid_vocab)
       IN  /\ model_proto_' = r.value
           /\ call' = Called("SetVocabulary", valid_vocab, r.status, <<>>)
  /\ UNCHANGED <<model_, normalizer_, denormalizer_,
                 encode_extra_options_, decode_extra_options_>>
  /\ UNCHANGED <<rleVars, threads>>

ResetVocabularyAction ==
  /\ LET r == ResetVocabulary(Self)
     IN  /\ model_proto_' = r.value
         /\ call' = Called("ResetVocabulary", <<>>, r.status, <<>>)
  /\ UNCHANGED <<model_, normalizer_, denormalizer_,
                 encode_extra_options_, decode_extra_options_>>
  /\ UNCHANGED <<rleVars, threads>>

EncodeAction ==
  /\ \E input \in Inputs :
       LET r == Encode(Self, input)
       IN  call' = Called("Encode", input, r.status, r.value)
  /\ UNCHANGED <<model_proto_, model_, normalizer_, denormalizer_,
                 encode_extra_options_, decode_extra_options_>>
  /\ UNCHANGED <<rleVars, threads>>

SampleEncodeAction ==
  /\ \E input \in Inputs, nbest_size \in NBestSizes, alpha \in Alphas :
       \E r \in SampleEncode(Self, input, nbest_size, alpha) :
         call' = Called("SampleEncode",
                        [input |-> input, nbest_size |-> nbest_size, alpha |-> alpha],
                        r.status, r.value)
  /\ UNCHANGED <<model_proto_, model_, normalizer_, denormalizer_,
                 encode_extra_options_, decode_extra_options_>>
  /\ UNCHANGED <<rleVars, threads>>

\* the lifecycle of the processor and the greedy Encode
Next ==
  \/ LoadAction
  \/ SetEncodeExtraOptionsAction
  \/ SetDecodeExtraOptionsAction
  \/ SetVocabularyAction
  \/ ResetVocabularyAction
  \/ EncodeAction

Spec == Init /\ [][Next]_vars

\* the encoders of a processor that is loaded and configured: SampleEncode
\* beside Encode (both const: they leave the processor as it is)
SampleNext ==
  \/ LoadAction
  \/ SetEncodeExtraOptionsAction
  \/ SetVocabularyAction
  \/ EncodeAction
  \/ SampleEncodeAction

SpecSample == Init /\ [][SampleNext]_vars

\* arguments of the accessors
AccessorIds == {0, 1}

AccessorPieces == {BosPiece, PieceAB}

\* a call that ran to its end and returned value
Returns(op, arg, value) == call' = Called(op, arg, OK, value)

\* a call of unk_id .. pad_id: through a null model_ the process may be
\* killed instead of returning
ReturnsSpecialId(op, r) ==
  \/ Returns(op, <<>>, r.value)
  \/ r.null_call /\ call' = Called(op, <<>>, "SIGSEGV", <<>>)

AccessorAction ==
  /\ \/ Returns("GetPieceSize", <<>>, GetPieceSize(Self))
     \/ \E piece \in AccessorPieces : Returns("PieceToId", piece, PieceToId(Self, piece))
     \/ \E id \in AccessorIds :
          \/ Returns("IdToPiece", id, IdToPiece(Self, id))
          \/ Returns("GetScore", id, GetScore(Self, id))
          \/ Returns("IsControl", id, IsControl(Self, id))
          \/ Returns("IsUnknown", id, IsUnknown(Self, id))
          \/ Returns("IsUnused", id, IsUnused(Self, id))
          \/ Returns("IsByte", id, IsByte(Self, id))
     \/ ReturnsSpecialId("unk_id", unk_id(Self))
     \/ ReturnsSpecialId("bos_id", bos_id(Self))
     \/ ReturnsSpecialId("eos_id", eos_id(Self))
     \/ ReturnsSpecialId("pad_id", pad_id(Self))
  /\ UNCHANGED <<model_proto_, model_, normalizer_, denormalizer_,
                 encode_extra_options_, decode_extra_options_>>
  /\ UNCHANGED <<rleVars, threads>>

\* the accessors of a processor, loaded or not
AccessNext ==
  \/ LoadAction
  \/ AccessorAction

SpecAccess == Init /\ [][AccessNext]_vars

\* input texts of PopulateSentencePieceText: "", "ab", "zzz"
PopulateInputs == {<<>>, <<97, 98>>, <<122, 122, 122>>}

NBestEncodeAction ==
  /\ \E input \in Inputs, nbest_size \in {1, 2} :
       LET r == NBestEncode(Self, input, nbest_size)
       IN  call' = Called("NBestEncode", [input |-> input, nbest_size |-> nbest_size],
                          r.status, r.value)
  /\ UNCHANGED <<model_proto_, model_, normalizer_, denormalizer_,
                 encode_extra_options_, decode_extra_options_>>
  /\ UNCHANGED <<rleVars, threads>>

\* PopulateSentencePieceText as Encode, NBestEncode and SampleEncode call it,
\* after status() and Normalize, with the result of whatever kernel model_ is
PopulateSentencePieceTextAction ==
  /\ status(Self) = OK
  /\ \E input \in PopulateInputs :
       LET norm == Normalize(Deref(model_proto_), input)
       IN  \E result \in KernelResults(Pieces(Self), norm.normalized) :
             LET r == PopulateSentencePieceText(Self, input, norm.normalized,
                                                norm.norm_to_orig, result)
             IN  call' = Called("PopulateSentencePieceText",
                                [input |-> input, result |-> result],
                                r.status, r.value)
  /\ UNCHANGED <<model_proto_, model_, normalizer_, denormalizer_,
                 encode_extra_options_, decode_extra_options_>>
  /\ UNCHANGED <<rleVars, threads>>

\* the three encoders and the record builder they share
EncodeNext ==
  \/ LoadAction
  \/ SetEncodeExtraOptionsAction
  \/ EncodeAction
  \/ NBestEncodeAction
  \/ SampleEncodeAction
  \/ PopulateSentencePieceTextAction

SpecEncode == Init /\ [][EncodeNext]_vars

(***************************************************************************)
(* The structured Decode on a loaded processor.  Two artifacts: one with    *)
(* byte fallback, whose vocabulary holds the BYTE pieces of the bytes in    *)
(* DecodeBytes, and one with a denormalizer whose character map replaces    *)
(* "a" by "A", "b" by "BB" and "cc" by "C" and deletes "c".  tokens and ids *)
(* hold the arguments of Decode(pieces, spt) and Decode(ids, spt).          *)
(***************************************************************************)
\* bytes of "z", U+0080 (C2 80), U+F000 (EF 80 80), U+FFFD (EF BF BD) and
\* U+3F000 (F0 BF 80 80)
DecodeBytes == {122, 128, 189, 191, 194, 239, 240}

PieceC == <<99>>                                 \* "c"
PieceQ == <<113>>                                \* "q", in no vocabulary

ArtBytes ==
  [name |-> "bytes", model_type |-> "BPE",
   pieces |-> <<SentencePiece(UnkPiece, "UNKNOWN"), SentencePiece(BosPiece, "CONTROL"),
                SentencePiece(EosPiece, "CONTROL"), SentencePiece(PieceA, "NORMAL"),
                SentencePiece(PieceSpA, "NORMAL"),
                SentencePiece(ByteToPiece(122), "BYTE"), SentencePiece(ByteToPiece(128), "BYTE"),
                SentencePiece(ByteToPiece(189), "BYTE"), SentencePiece(ByteToPiece(191), "BYTE"),
                SentencePiece(ByteToPiece(194), "BYTE"), SentencePiece(ByteToPiece(239), "BYTE"),
                SentencePiece(ByteToPiece(240), "BYTE")>>,
   byte_fallback |-> TRUE, add_dummy_prefix |-> TRUE,
   remove_extra_whitespaces |-> FALSE, treat_whitespace_as_suffix |-> FALSE,
   unk_surface |-> Null, denormalizer_rules |-> <<>>,
   has_denormalizer_spec |-> FALSE, denormalizer_charsmap_empty |-> TRUE,
   nbest |-> FALSE, sample |-> TRUE,
   samples |-> <<>>]

ArtDenorm ==
  [name |-> "denorm", model_type |-> "UNIGRAM",
   pieces |-> <<SentencePiece(UnkPiece, "UNKNOWN"), SentencePiece(BosPiece, "CONTROL"),
                SentencePiece(EosPiece, "CONTROL"), SentencePiece(PieceA, "NORMAL"),
                SentencePiece(PieceB, "NORMAL"), SentencePiece(PieceC, "NORMAL"),
                SentencePiece(PieceSpA, "NORMAL"), SentencePiece(ByteToPiece(122), "BYTE")>>,
   byte_fallback |-> FALSE, add_dummy_prefix |-> TRUE,
   remove_extra_whitespaces |-> FALSE, treat_whitespace_as_suffix |-> FALSE,
   unk_surface |-> Ptr(<<63>>),
   denormalizer_rules |-> <<Rule(PieceA, <<65>>), Rule(PieceB, <<66, 66>>),
                            Rule(<<99, 99>>, <<67>>), Rule(PieceC, <<>>)>>,
   has_denormalizer_spec |-> TRUE, denormalizer_charsmap_empty |-> FALSE,
   nbest |-> TRUE, sample |-> TRUE,
   samples |-> <<>>]

\* as ArtDenorm, with whitespace as suffix and no denormalizer
ArtSuffix ==
  [ArtDenorm EXCEPT !.name = "suffix", !.treat_whitespace_as_suffix = TRUE,
                    !.unk_surface = Null, !.denormalizer_rules = <<>>,
                    !.has_denormalizer_spec = FALSE, !.denormalizer_charsmap_empty = TRUE,
                    !.pieces = Append(@, SentencePiece(<<97, 226, 150, 129>>, "NORMAL"))]

DecodeArtifacts == {ArtBytes, ArtDenorm, ArtSuffix}

\* runs of at most MaxByteRun BYTE pieces, alone or between two pieces "a"
ByteRuns ==
  UNION { [1..n -> {ByteToPiece(b) : b \in DecodeBytes}] : n \in 0..MaxByteRun }

ByteRunInputs ==
  ByteRuns \cup {<<PieceA>> \o run \o <<PieceA>> : run \in {r \in ByteRuns : Len(r) <= 2}}

\* at most MaxDecodeLen pieces of text, control and unknown pieces among them
TextPieces ==
  {PieceA, PieceB, PieceC, PieceSpA, <<97, 226, 150, 129>>, BosPiece, UnkPiece, PieceQ,
   ByteToPiece(122)}

TextInputs == UNION { [1..n -> TextPieces] : n \in 0..MaxDecodeLen }

DecodeInputs(model_proto) ==
  IF model_proto.byte_fallback THEN ByteRunInputs ELSE TextInputs

DecodeInit ==
  \E model_proto \in DecodeArtifacts :
    LET loaded == Load(NewProcessor, model_proto)
    IN  /\ model_proto_ = loaded.value.model_proto_
        /\ model_ = loaded.value.model_
        /\ normalizer_ = loaded.value.normalizer_
        /\ denormalizer_ = loaded.value.denormalizer_
        /\ encode_extra_options_ = <<>>
        /\ decode_extra_options_ = <<>>
        /\ call = Called("Load", model_proto.name, loaded.status, <<>>)
        /\ pieces = <<>>
        /\ tokens \in DecodeInputs(model_proto)
        /\ ids = PiecesToIds(model_proto.pieces, tokens)
        /\ expanded = NotRun
        /\ new_ids = NotRun
        /\ rpc = {}
        /\ threads = NoCalls

DecodeAction ==
  /\ call' = CalledWith("Decode", tokens, Decode(Self, tokens))
  /\ UNCHANGED <<model_proto_, model_, normalizer_, denormalizer_,
                 encode_extra_options_, decode_extra_options_>>
  /\ UNCHANGED <<rleVars, threads>>

DecodeOfIdsAction ==
  /\ call' = CalledWith("DecodeOfIds", tokens, DecodeOfIds(Self, ids))
  /\ UNCHANGED <<model_proto_, model_, normalizer_, denormalizer_,
                 encode_extra_options_, decode_extra_options_>>
  /\ UNCHANGED <<rleVars, threads>>

DecodeNext ==
  \/ SetDecodeExtraOptionsAction
  \/ DecodeAction
  \/ DecodeOfIdsAction

SpecDecode == DecodeInit /\ [][DecodeNext]_vars

(***************************************************************************)
(* Concurrent calls of the const methods Encode, NBestEncode and Decode on  *)
(* one loaded processor.  A thread takes one step of its call at a time:    *)
(* the status check, the normalizer, the kernel, one                        *)
(* PopulateSentencePieceText, and for Decode the pieces, the surfaces and   *)
(* the denormalizer.  Every step reads the members of the processor as      *)
(* they are at that moment.  SetDecodeExtraOptions runs between calls only. *)
(***************************************************************************)
ConcurrentArtifacts == {ArtUnigram, ArtBytes}

\* "ab", "zz"
ConcurrentInputs == {<<97, 98>>, <<122, 122>>}

ConcurrentPieces == {<<PieceSpA, PieceB>>, <<ByteToPiece(194), ByteToPiece(128), PieceA>>}

ConcurrentInit ==
  \E model_proto \in ConcurrentArtifacts :
    LET loaded == Load(NewProcessor, model_proto)
    IN  /\ model_proto_ = loaded.value.model_proto_
        /\ model_ = loaded.value.model_
        /\ normalizer_ = loaded.value.normalizer_
        /\ denormalizer_ = loaded.value.denormalizer_
        /\ encode_extra_options_ = <<>>
        /\ decode_extra_options_ = <<>>
        /\ call = Called("Load", model_proto.name, loaded.status, <<>>)
        /\ pieces = <<>>
        /\ tokens = <<>>
        /\ ids = <<>>
        /\ expanded = NotRun
        /\ new_ids = NotRun
        /\ rpc = {}
        /\ threads = NoCalls

\* mutant: normalized and norm_to_orig are those of thread 1, as if static
Local_Shared(t) ==
  [threads[t] EXCEPT !.normalized = threads[1].normalized,
                     !.norm_to_orig = threads[1].norm_to_orig]

\* the automatic variables of the call of thread t
Local(t) == threads[t]

Members == <<model_proto_, model_, normalizer_, denormalizer_,
             encode_extra_options_, decode_extra_options_>>

\* a step of thread t: its frame changes, nothing else does
StepTo(t, frame) ==
  /\ threads' = [threads EXCEPT ![t] = frame]
  /\ UNCHANGED <<Members, call>>
  /\ UNCHANGED rleVars

Finished(frame, st, spts) == [frame EXCEPT !.pc = "done", !.status = st, !.spts = spts]

CallEncode(t) ==
  /\ threads[t].pc = "idle"
  /\ \E input \in ConcurrentInputs : StepTo(t, Frame("Encode", input, 0, <<>>, "check"))

CallNBestEncode(t) ==
  /\ threads[t].pc = "idle"
  /\ \E input \in ConcurrentInputs : StepTo(t, Frame("NBestEncode", input, 2, <<>>, "check"))

CallDecode(t) ==
  /\ threads[t].pc = "idle"
  /\ \E dpieces \in ConcurrentPieces : StepTo(t, Frame("Decode", <<>>, 0, dpieces, "check"))

\* CHECK_OR_RETURN_STATUS_PROTO: status(), then the output is cleared
CheckStatus(t) ==
  /\ threads[t].pc = "check"
  /\ IF status(Self) # OK
     THEN StepTo(t, Finished(threads[t], status(Self),
                             IF threads[t].op = "NBestEncode" THEN <<>> ELSE <<ClearedText>>))
     ELSE StepTo(t, [threads[t] EXCEPT
                       !.pc = IF threads[t].op = "Decode" THEN "pieces" ELSE "normalize",
                       !.spts = IF threads[t].op = "NBestEncode" THEN <<>>
                                ELSE <<ClearedText>>])

\* normalizer_->Normalize(input, &normalized, &norm_to_orig)
NormalizeStep(t) ==
  /\ threads[t].pc = "normalize"
  /\ LET norm == Normalize(Deref(model_proto_), threads[t].input)
     IN  StepTo(t, [threads[t] EXCEPT !.pc = "model",
                                      !.normalized = norm.normalized,
                                      !.norm_to_orig = norm.norm_to_orig])

\* model_->Encode(normalized), or IsNBestEncodeAvailable and model_->NBestEncode
ModelStep(t) ==
  /\ threads[t].pc = "model"
  /\ LET proto == Deref(model_proto_)
     IN  IF threads[t].op = "Encode"
         THEN StepTo(t, [threads[t] EXCEPT
                           !.pc = "populate",
                           !.nbests = <<ModelEncode(proto.pieces, Local(t).normalized)>>])
         ELSE LET nbests == ModelNBestEncode(proto.pieces, Local(t).normalized,
                                             threads[t].nbest_size)
              IN  IF ~proto.nbest \/ Len(nbests) = 0
                  THEN StepTo(t, Finished(threads[t], "Internal", <<>>))
                  ELSE StepTo(t, [threads[t] EXCEPT !.pc = "populate", !.nbests = nbests])

\* PopulateSentencePieceText of the next result
PopulateStep(t) ==
  /\ threads[t].pc = "populate"
  /\ LET done == IF threads[t].op = "Encode" THEN <<>> ELSE Local(t).spts
         k == Len(done) + 1
     IN  IF k > Len(Local(t).nbests) THEN StepTo(t, Finished(threads[t], OK, done))
         ELSE LET r == PopulateSentencePieceText(Self, threads[t].input,
                         Local(t).normalized, Local(t).norm_to_orig, Local(t).nbests[k])
              IN  IF r.status # OK \/ threads[t].op = "Encode"
                  THEN StepTo(t, Finished(threads[t], r.status, Append(done, r.value)))
                  ELSE StepTo(t, [threads[t] EXCEPT !.spts = Append(done, r.value)])

\* Decode: the pieces with their ids, then ApplyExtraOptions
DecodePiecesStep(t) ==
  /\ threads[t].pc = "pieces"
  /\ LET added == [k \in 1..Len(threads[t].dpieces) |->
                     SPieceDefault(threads[t].dpieces[k],
                                   PieceToId(Self, threads[t].dpieces[k]))]
         applied == ApplyExtraOptions(Self, decode_extra_options_, added)
         spt == SentencePieceText(<<>>, applied.value)
     IN  IF applied.status # OK THEN StepTo(t, Finished(threads[t], applied.status, <<spt>>))
         ELSE StepTo(t, [threads[t] EXCEPT !.pc = "surfaces", !.spts = <<spt>>])

\* Decode: the surfaces of the pieces and the text
DecodeSurfacesStep(t) ==
  /\ threads[t].pc = "surfaces"
  /\ LET decoded == DecodeLoop(Self, Local(t).spts[1], 0, 0)
     IN  IF decoded.status # OK \/ denormalizer_ = Null
         THEN StepTo(t, Finished(threads[t], decoded.status, <<decoded.value>>))
         ELSE StepTo(t, [threads[t] EXCEPT !.pc = "denormalize", !.spts = <<decoded.value>>])

\* Decode: the denormalizer and the remap of the records
DenormalizeStep(t) ==
  /\ threads[t].pc = "denormalize"
  /\ LET spt == Local(t).spts[1]
         d == Denormalize(Deref(model_proto_).denormalizer_rules, spt.text)
     IN  IF Deref(denormalizer_) # Deref(model_proto_).name
         THEN StepTo(t, Finished(threads[t], "UB", <<spt>>))
         ELSE StepTo(t, Finished(threads[t], OK,
                  <<SentencePieceText(d.normalized,
                      Remap(d.normalized, d.norm_to_orig, spt.pieces, 0, 0, 0, -1))>>))

\* the call returns to its caller
Return(t) ==
  /\ threads[t].pc = "done"
  /\ threads' = [threads EXCEPT ![t] = IdleFrame]
  /\ call' = Called(threads[t].op,
                    [input |-> threads[t].input, nbest_size |-> threads[t].nbest_size,
                     dpieces |-> threads[t].dpieces],
                    threads[t].status, threads[t].spts)
  /\ UNCHANGED Members
  /\ UNCHANGED rleVars

\* SetDecodeExtraOptions, called while no call is in progress
SetDecodeExtraOptionsBetweenCalls ==
  /\ \A t \in Threads : threads[t].pc = "idle"
  /\ SetDecodeExtraOptionsAction

ConcurrentNext ==
  \/ \E t \in Threads : CallEncode(t)
  \/ \E t \in Threads : CallNBestEncode(t)
  \/ \E t \in Threads : CallDecode(t)
  \/ \E t \in Threads : CheckStatus(t)
  \/ \E t \in Threads : NormalizeStep(t)
  \/ \E t \in Threads : ModelStep(t)
  \/ \E t \in Threads : PopulateStep(t)
  \/ \E t \in Threads : DecodePiecesStep(t)
  \/ \E t \in Threads : DecodeSurfacesStep(t)
  \/ \E t \in Threads : DenormalizeStep(t)
  \/ \E t \in Threads : Return(t)
  \/ SetDecodeExtraOptionsBetweenCalls

SpecConcurrent == ConcurrentInit /\ [][ConcurrentNext]_vars

(***************************************************************************)
(* Claims about the run-length layer (checked under SpecRle).               *)
(***************************************************************************)
NoMarkers(v) == \A k \in 1..Len(v) : v[k] # StartRepeat /\ v[k] # EndRepeat

\* a folded run whose count is written with two digit pieces, of piece p
TwoDigitRunOf(v, p) ==
  \E k \in 2..(Len(v) - 3) :
    /\ v[k - 1] = p
    /\ v[k] = StartRepeat
    /\ stoi(v[k + 1]) # StoiThrows
    /\ stoi(v[k + 2]) # StoiThrows
    /\ v[k + 3] = EndRepeat

\* C1: for every piece sequence p without markers (the empty one, runs of
\* digit pieces and runs of ten or more pieces included),
\* expand_from_pieces(rle(p)) returns p.
C1_PieceRoundTrip ==
  ("expand_pieces" \in rpc /\ NoMarkers(pieces))
    => expanded = Outcome("ok", pieces)

\* a run of ten or more digit pieces "1" was folded and unfolded back
C1_Witness ==
  /\ "expand_pieces" \in rpc
  /\ NoMarkers(pieces)
  /\ TwoDigitRunOf(tokens, <<49>>)
  /\ expanded.st = "ok"

\* C2: the id-layer unfold yields the ids of the piece-layer unfold of the
\* same folded sequence (k copies of the symbol for a run written with
\* count k), so Decode(ids) inverts the fold of Encode(ids).
C2_IdUnfoldIsPieceUnfold ==
  ({"expand_pieces", "expand_ids"} \subseteq rpc /\ expanded.st = "ok")
    => /\ new_ids = Outcome("ok", PiecesToIds(Pieces(Self), expanded.out))
       /\ new_ids.out = PiecesToIds(Pieces(Self), pieces)

\* the maximal run of v that starts at position s (1-based) has this length
RunLength(v, s) ==
  CHOOSE k \in 1..(Len(v) - s + 1) :
    /\ \A j \in s..(s + k - 1) : v[j] = v[s]
    /\ (s + k > Len(v) \/ v[s + k] # v[s])

\* the one-character piece "0" .. "9" of a digit
DigitPiece(d) ==
  CASE d = 0 -> <<48>> [] d = 1 -> <<49>> [] d = 2 -> <<50>> [] d = 3 -> <<51>>
    [] d = 4 -> <<52>> [] d = 5 -> <<53>> [] d = 6 -> <<54>> [] d = 7 -> <<55>>
    [] d = 8 -> <<56>> [] d = 9 -> <<57>>

\* the decimal digits of k, most significant first, as one-character pieces
RECURSIVE Decimal(_)
Decimal(k) ==
  IF k < 10 THEN <<DigitPiece(k)>>
  ELSE Decimal(k \div 10) \o <<DigitPiece(k % 10)>>

FoldedRun(piece, k) ==
  IF k = 1 THEN <<piece>>
  ELSE <<piece, StartRepeat>> \o Decimal(k) \o <<EndRepeat>>

RECURSIVE FoldFormat(_, _)
FoldFormat(v, s) ==
  IF s > Len(v) THEN <<>>
  ELSE FoldedRun(v[s], RunLength(v, s)) \o FoldFormat(v, s + RunLength(v, s))

\* C3: rle emits, for each maximal run of k identical pieces in order, the
\* piece alone when k = 1 and otherwise the piece, the start marker, the
\* decimal digits of k most significant first, the end marker; nothing else.
C3_FoldFormat ==
  "rle" \in rpc => tokens = FoldFormat(pieces, 1)

\* a fold of a single piece followed by a run of ten or more
C3_Witness ==
  /\ "rle" \in rpc
  /\ Len(pieces) > 10
  /\ pieces[1] # pieces[2]
  /\ TwoDigitRunOf(tokens, <<97>>)

(***************************************************************************)
(* Claims about the processor's lifecycle (checked under Spec).             *)
(***************************************************************************)
Ready == status(Self) = OK

Proto == Deref(model_proto_)

\* the artifact a loaded ModelProto was read from, as it was right after Load
ArtifactNamed(name) == CHOOSE a \in Artifacts : a.name = name

TypesOf(proto) == [i \in 1..Len(proto.pieces) |-> proto.pieces[i].type]

\* a stored option list names BOS (EOS) only if the bos (eos) piece resolves
\* to an id that is not the unknown id
OptionsResolve(extra_options) ==
  \A k \in 1..Len(extra_options) :
    /\ extra_options[k] = "BOS" => ~IsUnknown(Self, PieceToId(Self, BosPiece))
    /\ extra_options[k] = "EOS" => ~IsUnknown(Self, PieceToId(Self, EosPiece))

\* C4: on a loaded processor, after every SetEncodeExtraOptions or
\* SetDecodeExtraOptions call, whether it returned OK or an error, the list
\* it stored contains BOS (EOS) only if the bos (eos) piece resolves to a
\* non-unknown id.
C4_StoredOptionsResolve ==
  /\ (Ready /\ call.op = "SetEncodeExtraOptions") => OptionsResolve(encode_extra_options_)
  /\ (Ready /\ call.op = "SetDecodeExtraOptions") => OptionsResolve(decode_extra_options_)

\* C5: a Load that returns an error leaves the artifact, the model kernel,
\* the normalizer and the denormalizer as they were before the call.
C5_LoadIsAtomic ==
  [][(call'.op = "Load" /\ call'.status # OK)
       => UNCHANGED <<model_proto_, model_, normalizer_, denormalizer_>>]_vars

\* C6: after every successful Load, whatever Loads came before it, a
\* denormalizer is configured if and only if the artifact just loaded has a
\* denormalizer spec with a non-empty charmap.
C6_DenormalizerFollowsArtifact ==
  (call.op = "Load" /\ call.status = OK)
    => ((denormalizer_ # Null)
          <=> (Proto.has_denormalizer_spec /\ ~Proto.denormalizer_charsmap_empty))

\* C7: SetVocabulary followed by ResetVocabulary leaves every piece with the
\* type it had right after Load, and a SetVocabulary or ResetVocabulary only
\* ever switches a piece between NORMAL and UNUSED.
C7_MaskIsReversible ==
  [][/\ (call.op = "SetVocabulary" /\ call.status = OK
           /\ call'.op = "ResetVocabulary" /\ call'.status = OK)
        => TypesOf(Deref(model_proto_')) = TypesOf(ArtifactNamed(Deref(model_proto_').name))
     /\ (call'.op \in {"SetVocabulary", "ResetVocabulary"} /\ call'.status = OK)
        => \A i \in 1..Len(Proto.pieces) :
             Deref(model_proto_').pieces[i].type # Proto.pieces[i].type
               => {Proto.pieces[i].type, Deref(model_proto_').pieces[i].type}
                    \subseteq {"NORMAL", "UNUSED"}]_vars

\* a piece that is exactly one UTF-8 character, by the length its lead byte
\* announces
IsSingleCharacter(piece) ==
  /\ Len(piece) >= 1
  /\ \/ piece[1] < 192 /\ Len(piece) = 1
     \/ piece[1] >= 192 /\ piece[1] < 224 /\ Len(piece) = 2
     \/ piece[1] >= 224 /\ piece[1] < 240 /\ Len(piece) = 3
     \/ piece[1] >= 240 /\ Len(piece) = 4

\* C8: after a successful SetVocabulary(allow-set), a piece that was CONTROL,
\* UNKNOWN or USER_DEFINED has kept its type, and every other piece is NORMAL
\* if its text is in the allow-set or is a single character and UNUSED
\* otherwise, whatever SetVocabulary calls came before.
C8_SetVocabularyTyping ==
  (call.op = "SetVocabulary" /\ call.status = OK)
    => \A i \in 1..Len(Proto.pieces) :
         LET loaded == ArtifactNamed(Proto.name).pieces[i].type
             now == Proto.pieces[i]
         IN  IF loaded \in {"CONTROL", "UNKNOWN", "USER_DEFINED"}
             THEN now.type = loaded
             ELSE now.type = IF now.piece \in call.arg \/ IsSingleCharacter(now.piece)
                             THEN "NORMAL" ELSE "UNUSED"

\* SetVocabulary({"ab"}) succeeded: "ab" is NORMAL by the allow-set, the
\* one-character U+2581 is NORMAL without being in it, "xy" is UNUSED
C8_Witness ==
  /\ call.op = "SetVocabulary"
  /\ call.status = OK
  /\ call.arg = {PieceAB}
  /\ \E i, j, k \in 1..Len(Proto.pieces) :
       /\ Proto.pieces[i] = SentencePiece(PieceAB, "NORMAL")
       /\ Proto.pieces[j] = SentencePiece(SpaceSymbol, "NORMAL")
       /\ Proto.pieces[k] = SentencePiece(PieceXY, "UNUSED")

(***************************************************************************)
(* Claims about SampleEncode (checked under SpecSample).                    *)
(***************************************************************************)
IsSampleCall(nbest_sizes) ==
  call.op = "SampleEncode" /\ call.arg.nbest_size \in nbest_sizes

ReturnedGreedy ==
  Returned(call.status, call.value) = Encode(Self, call.arg.input)

\* C9 as stated: SampleEncode with nbest_size = 1 returns exactly the greedy
\* Encode result, whatever N-best and sampling capabilities the model has.
C9_SampleOneIsGreedy ==
  IsSampleCall({1}) => ReturnedGreedy

\* C9 as amended: SampleEncode with nbest_size = 1 returns exactly the greedy
\* Encode result on every loaded model that advertises N-best.
C9_SampleOneIsGreedyWithNBest ==
  (IsSampleCall({1}) /\ Ready /\ Proto.nbest) => ReturnedGreedy

\* nbest_size = 1 on a model with N-best, for an input the kernel segments
\* in two ways
C9_Witness ==
  /\ IsSampleCall({1})
  /\ Ready
  /\ Proto.nbest
  /\ call.status = OK
  /\ Len(call.value.pieces) > 0
  /\ Len(ModelNBestEncode(Proto.pieces,
                          Normalize(Proto, call.arg.input).normalized, 2)) = 2

\* C10 as stated: SampleEncode with nbest_size <= 0 on a loaded model that
\* does not advertise sampling returns an error, with or without N-best.
C10_NoSamplingFails ==
  (IsSampleCall({-1, 0}) /\ Ready /\ ~Proto.sample) => call.status # OK

\* C10 as amended: on a loaded model that does not advertise sampling,
\* SampleEncode returns an error when nbest_size < 0 (with or without N-best)
\* and when nbest_size = 0 without N-best; with nbest_size = 0 and N-best it
\* returns the greedy Encode result.
C10_NoSamplingFailsUnlessZeroWithNBest ==
  (IsSampleCall({-1, 0}) /\ Ready /\ ~Proto.sample)
    => IF call.arg.nbest_size < 0 \/ ~Proto.nbest
       THEN call.status # OK
       ELSE ReturnedGreedy

\* a negative nbest_size failed on a model with N-best and without sampling
C10_Witness ==
  /\ IsSampleCall({-1})
  /\ Ready
  /\ Proto.nbest
  /\ ~Proto.sample
  /\ call.status # OK

(***************************************************************************)
(* Claims about the records of the structured Encode (checked under Spec).  *)
(***************************************************************************)
IsEncodeCall == call.op = "Encode" /\ call.status = OK /\ Ready

\* what the normalizer and the kernel gave the Encode call
NormalizedOf(input) == Normalize(Proto, input).normalized

RECURSIVE SumOfPieceLengths(_, _)
SumOfPieceLengths(pcs, k) ==
  IF k > Len(pcs) THEN 0
  ELSE (IF IsControl(Self, pcs[k].id) THEN 0 ELSE Len(pcs[k].piece))
         + SumOfPieceLengths(pcs, k + 1)

\* the bytes of the UNKNOWN pieces of a kernel result
RECURSIVE UnknownBytes(_, _)
UnknownBytes(result, k) ==
  IF k > Len(result) THEN 0
  ELSE (IF IsUnknown(Self, result[k].second) THEN Len(result[k].first) ELSE 0)
         + UnknownBytes(result, k + 1)

\* C11 as stated: after a successful Encode with no extra options, with or
\* without byte fallback, the lengths of the piece texts of the non-control
\* records sum to the length of the normalized input.
C11_PieceLengthsSumToNormalized ==
  (IsEncodeCall /\ encode_extra_options_ = <<>>)
    => SumOfPieceLengths(call.value.pieces, 1) = Len(NormalizedOf(call.arg))

\* C11 as amended: the sum is the length of the normalized input when byte
\* fallback is disabled; with byte fallback every byte of an UNKNOWN piece
\* is emitted as a six-byte piece "<0xNN>", five bytes more than it consumes.
C11_PieceLengthsSumWithoutByteFallback ==
  (IsEncodeCall /\ encode_extra_options_ = <<>>)
    => SumOfPieceLengths(call.value.pieces, 1)
         = Len(NormalizedOf(call.arg))
             + (IF Proto.byte_fallback
                THEN 5 * UnknownBytes(ModelEncode(Proto.pieces, NormalizedOf(call.arg)), 1)
                ELSE 0)

\* Encode of "zz" without byte fallback: the two unknown characters were
\* merged into one record
C11_Witness ==
  /\ IsEncodeCall
  /\ encode_extra_options_ = <<>>
  /\ ~Proto.byte_fallback
  /\ \E k \in 1..Len(call.value.pieces) :
       /\ IsUnknown(Self, call.value.pieces[k].id)
       /\ call.value.pieces[k].piece = <<122, 122>>

\* the record lists a successful encoder call returned
ReturnedRecordLists ==
  IF call.status # OK \/ ~Ready THEN {}
  ELSE IF call.op \in {"Encode", "SampleEncode", "PopulateSentencePieceText"}
  THEN {call.value.pieces}
  ELSE IF call.op = "NBestEncode"
  THEN {call.value[k].pieces : k \in 1..Len(call.value)}
  ELSE {}

\* C12: in every record list returned by a successful Encode, NBestEncode or
\* SampleEncode, under any encode extra options, every record whose id is a
\* CONTROL id, BOS and EOS records included, has begin = end.
C12_ControlRecordsAreEmpty ==
  \A pcs \in ReturnedRecordLists :
    \A k \in 1..Len(pcs) : IsControl(Self, pcs[k].id) => pcs[k].begin = pcs[k].end

\* a control piece of the kernel recorded past the start of the input, next
\* to a BOS or EOS record of the extra options
C12_Witness ==
  /\ call.op = "PopulateSentencePieceText"
  /\ encode_extra_options_ # <<>>
  /\ \E pcs \in ReturnedRecordLists :
       /\ \E k \in 1..Len(pcs) : IsControl(Self, pcs[k].id) /\ pcs[k].begin > 0
       /\ \E k \in 1..Len(pcs) : IsControl(Self, pcs[k].id) /\ pcs[k].begin = 0
                                   /\ pcs[k].piece \in {BosPiece, EosPiece}

\* the records Encode returns for the same input without extra options
PlainRecords == Encode([Self EXCEPT !.encode_extra_options_ = <<>>], call.arg).value.pieces

BosRecord == SPieceDefault(BosPiece, PieceToId(Self, BosPiece))

EosRecord == SPieceDefault(EosPiece, PieceToId(Self, EosPiece))

\* C13: extra options are applied in the order listed: "bos:eos" gives
\* [BOS] + P + [EOS], "reverse:eos" gives reverse(P) + [EOS] and
\* "eos:reverse" gives [EOS] + reverse(P), P being the records without
\* options.
C13_OptionsApplyInOrder ==
  IsEncodeCall =>
    /\ encode_extra_options_ = <<"BOS", "EOS">>
         => call.value.pieces = <<BosRecord>> \o PlainRecords \o <<EosRecord>>
    /\ encode_extra_options_ = <<"REVERSE", "EOS">>
         => call.value.pieces = Reverse(PlainRecords) \o <<EosRecord>>
    /\ encode_extra_options_ = <<"EOS", "REVERSE">>
         => call.value.pieces = <<EosRecord>> \o Reverse(PlainRecords)

\* "reverse:eos" applied to two different records
C13_Witness ==
  /\ IsEncodeCall
  /\ encode_extra_options_ = <<"REVERSE", "EOS">>
  /\ Len(PlainRecords) = 2
  /\ PlainRecords[1] # PlainRecords[2]
  /\ call.value.pieces[3] = EosRecord

(***************************************************************************)
(* Claims about the accessors (checked under SpecAccess).                   *)
(***************************************************************************)
AccessorNames ==
  {"GetPieceSize", "PieceToId", "IdToPiece", "GetScore", "IsControl", "IsUnknown",
   "IsUnused", "IsByte", "unk_id", "bos_id", "eos_id", "pad_id"}

\* the call returned the default of its accessor
ReturnedDefault ==
  CASE call.op \in {"GetPieceSize", "PieceToId", "GetScore"} -> call.value = 0
    [] call.op = "IdToPiece" -> call.value = <<>>
    [] call.op \in {"IsControl", "IsUnknown", "IsUnused", "IsByte"} -> call.value = FALSE
    [] call.op \in {"unk_id", "bos_id", "eos_id", "pad_id"} -> call.value = -1

\* C14: on a processor that was never loaded every accessor that returns a
\* primitive returns its default value, without using the absent model.
C14_AccessorsReturnDefaults ==
  (call.op \in AccessorNames /\ model_ = Null)
    => call.status = OK /\ ReturnedDefault

(***************************************************************************)
(* Claims about the unfold of arbitrary sequences (checked under            *)
(* SpecUnfold).                                                             *)
(***************************************************************************)
\* each start marker has a piece before it
StartsPreceded(v) == \A k \in 1..Len(v) : v[k] = StartRepeat => k > 1

\* C16: for every piece sequence in which each start marker is preceded by
\* a piece, expand_from_pieces terminates and returns a sequence without
\* start marker, and so does expand_from_ids for the ids of the sequence.
C16_UnfoldTerminates ==
  StartsPreceded(tokens) =>
    /\ "expand_pieces" \in rpc
         => /\ expanded.st = "ok"
            /\ \A k \in 1..Len(expanded.out) : expanded.out[k] # StartRepeat
    /\ "expand_ids" \in rpc
         => /\ new_ids.st = "ok"
            /\ \A k \in 1..Len(new_ids.out) :
                 new_ids.out[k] # ModelPieceToId(Pieces(Self), StartRepeat)

(***************************************************************************)
(* Claims about the merging of unknown pieces (checked under SpecEncode).   *)
(***************************************************************************)
IsPopulateCall ==
  call.op = "PopulateSentencePieceText" /\ call.status = OK /\ Ready

\* the last index of the maximal run of UNKNOWN pieces that starts at k
RECURSIVE RunEnd(_, _)
RunEnd(result, k) ==
  IF k < Len(result) /\ IsUnknown(Self, result[k + 1].second)
  THEN RunEnd(result, k + 1)
  ELSE k

\* the concatenation of the piece texts of result[k..e]
RECURSIVE ConcatPieces(_, _, _)
ConcatPieces(result, k, e) ==
  IF k > e THEN <<>> ELSE result[k].first \o ConcatPieces(result, k + 1, e)

\* the concatenation of the surfaces of result[k..e], the first of which
\* starts at byte consumed of the normalized input
RECURSIVE ConcatSurfaces(_, _, _, _, _, _)
ConcatSurfaces(input, norm_to_orig, result, k, e, consumed) ==
  IF k > e THEN <<>>
  ELSE LET next == consumed + Len(result[k].first)
       IN  Slice(input, norm_to_orig[consumed + 1], norm_to_orig[next + 1])
             \o ConcatSurfaces(input, norm_to_orig, result, k + 1, e, next)

\* one record per maximal run of UNKNOWN pieces and one per other piece
RECURSIVE RecordsOfRuns(_, _, _, _, _)
RecordsOfRuns(input, norm_to_orig, result, k, consumed) ==
  IF k > Len(result) THEN <<>>
  ELSE IF IsControl(Self, result[k].second)
  THEN <<SPiece(result[k].first, result[k].second, <<>>,
                norm_to_orig[consumed + 1], norm_to_orig[consumed + 1])>>
         \o RecordsOfRuns(input, norm_to_orig, result, k + 1, consumed)
  ELSE LET e == IF IsUnknown(Self, result[k].second) THEN RunEnd(result, k) ELSE k
           piece == ConcatPieces(result, k, e)
           next == consumed + Len(piece)
       IN  <<SPiece(piece, result[k].second,
                    ConcatSurfaces(input, norm_to_orig, result, k, e, consumed),
                    norm_to_orig[consumed + 1], norm_to_orig[next + 1])>>
             \o RecordsOfRuns(input, norm_to_orig, result, e + 1, next)

\* C17: with byte fallback disabled every maximal run of consecutive UNKNOWN
\* pieces of the kernel's result becomes exactly one record, whose piece and
\* surface are the concatenations over the run and whose span goes from the
\* begin of the first to the end of the last; before extra options no two
\* neighbouring records are both UNKNOWN; a CONTROL piece between two
\* unknown pieces keeps them in separate records.
C17_UnknownRunsMerge ==
  (IsPopulateCall /\ ~Proto.byte_fallback /\ encode_extra_options_ = <<>>)
    => /\ call.value.pieces =
            RecordsOfRuns(call.arg.input,
                          Normalize(Proto, call.arg.input).norm_to_orig,
                          call.arg.result, 1, 0)
       /\ \A k \in 1..(Len(call.value.pieces) - 1) :
            ~(IsUnknown(Self, call.value.pieces[k].id)
                /\ IsUnknown(Self, call.value.pieces[k + 1].id))

\* "zzz" segmented as unknown, unknown, control, unknown: the first two are
\* one record over bytes 0..2, the last is a record of its own
C17_Witness ==
  /\ IsPopulateCall /\ ~Proto.byte_fallback /\ encode_extra_options_ = <<>>
  /\ \E k \in 1..(Len(call.arg.result) - 3) :
       /\ IsUnknown(Self, call.arg.result[k].second)
       /\ IsUnknown(Self, call.arg.result[k + 1].second)
       /\ IsControl(Self, call.arg.result[k + 2].second)
       /\ IsUnknown(Self, call.arg.result[k + 3].second)
  /\ \E k \in 1..(Len(call.value.pieces) - 2) :
       /\ call.value.pieces[k].piece = <<122, 122>>
       /\ call.value.pieces[k].surface = <<122, 122>>
       /\ call.value.pieces[k].end - call.value.pieces[k].begin = 2
       /\ IsControl(Self, call.value.pieces[k + 1].id)
       /\ call.value.pieces[k + 2].piece = <<122>>

(***************************************************************************)
(* Claims about the structured Decode (checked under SpecDecode).           *)
(***************************************************************************)
IsDecodeCall == call.op \in {"Decode", "DecodeOfIds"} /\ call.status = OK

\* the records of spt, in order, tile its text
Tiles(spt) ==
  LET p == spt.pieces
  IN  /\ Len(p) = 0 => Len(spt.text) = 0
      /\ Len(p) > 0 => p[1].begin = 0 /\ p[Len(p)].end = Len(spt.text)
      /\ \A k \in 1..(Len(p) - 1) : p[k + 1].begin = p[k].end
      /\ \A k \in 1..Len(p) :
           /\ 0 <= p[k].begin /\ p[k].begin <= p[k].end /\ p[k].end <= Len(spt.text)
           /\ Slice(spt.text, p[k].begin, p[k].end) = p[k].surface

\* C18: after every successful structured Decode, with or without a
\* denormalizer, the records in order tile the returned text: the first
\* begin is 0, each begin is the end of the record before, the last end is
\* the length of the text and text[begin, end) is the surface of the record.
C18_RecordsTileText == IsDecodeCall => Tiles(call.value)

\* a Decode through the denormalizer in which "b" became "BB" after another
\* record and a deleted "c" left a record empty
C18_Witness ==
  /\ IsDecodeCall
  /\ denormalizer_ # Null
  /\ \E k \in 2..Len(call.value.pieces) :
       /\ call.value.pieces[k].piece = PieceB
       /\ call.value.pieces[k].surface = <<66, 66>>
       /\ call.value.pieces[k].begin > 0
  /\ \E k \in 1..Len(call.value.pieces) :
       /\ call.value.pieces[k].piece = PieceC
       /\ call.value.pieces[k].surface = <<>>

\* the pieces given to Decode hold a run of BYTE pieces
DecodesByteRun ==
  /\ call.op \in {"Decode", "DecodeOfIds"}
  /\ \E k \in 1..Len(tokens) : IsByte(Self, PieceToId(Self, tokens[k]))

\* C19: byte-fallback reassembly never fails: whatever bytes a run of BYTE
\* pieces spells, well-formed characters of 1 to 4 bytes or malformed bytes,
\* Decode returns OK and every position of the run has its surface: empty
\* for the bytes of a character but the last, the UTF-8 of the character on
\* its last byte, U+FFFD for an invalid byte.
C19_ByteRunsNeverFail ==
  DecodesByteRun =>
    /\ call.status = OK
    /\ \A k \in 1..Len(call.value.pieces) :
         LET sp == call.value.pieces[k]
         IN  IsByte(Self, sp.id) =>
               \/ sp.surface = <<>>
               \/ Len(UTF8ToUnicodeText(sp.surface)) = 1

(***************************************************************************)
(* Claims about concurrent calls (checked under SpecConcurrent).            *)
(***************************************************************************)
\* what the call of a frame returns when it runs alone on the processor
RunAlone(frame) ==
  CASE frame.op = "Encode" ->
         LET r == Encode(Self, frame.input) IN Returned(r.status, <<r.value>>)
    [] frame.op = "NBestEncode" -> NBestEncode(Self, frame.input, frame.nbest_size)
    [] frame.op = "Decode" ->
         LET r == Decode(Self, frame.dpieces) IN Returned(r.status, <<r.value>>)

\* C15: on a loaded processor, under any interleaving of concurrent Encode,
\* NBestEncode and Decode calls, no step of a call writes a member of the
\* processor, and every call returns the status and the output it returns
\* when it runs alone.
C15_ConcurrentCallsAreIndependent ==
  /\ [](\A t \in Threads :
          threads[t].pc = "done" =>
            /\ threads[t].status = RunAlone(threads[t]).status
            /\ threads[t].spts = RunAlone(threads[t]).value)
  /\ [][threads' # threads => UNCHANGED Members]_vars

\* thread 1 has finished an Encode with records while thread 2 is inside a
\* Decode, its surfaces set and the denormalizer still to run
C15_Witness ==
  /\ threads[1].pc = "done" /\ threads[1].op = "Encode" /\ threads[1].status = OK
  /\ Len(threads[1].spts[1].pieces) > 0
  /\ threads[2].pc = "denormalize" /\ threads[2].op = "Decode"
  /\ Len(threads[2].spts[1].text) > 0

=============================================================================
